---------------------------- MODULE Spec2Model ----------------------------
(***************************************************************************)
(* Model of the spectre trading engine (apps/spectre): the position        *)
(* registry and its exit logic (position/mod.rs), the trader orchestrator  *)
(* with its prepared-transaction cache (trader.rs), and the main loop,     *)
(* pre-signal handler and position monitor tasks (main.rs).                *)
(*                                                                         *)
(* Numbers.  Prices are exact integers in one price unit.  The two derived *)
(* price levels of a Position are kept in hundredths of that unit, so that *)
(* entry * (1 - sl/100) is exact:  stop_loss_price = entry * (100 - sl).   *)
(* A comparison  price <= stop_loss_price  of the code therefore reads     *)
(* price * 100 <= stop_loss_price  here.  Time is in whole seconds.        *)
(***************************************************************************)
EXTENDS Integers, Sequences, FiniteSets, TLC

VARIABLES
    positions,            \* PositionManager.positions : token -> Position (a HashMap)
    last_call,            \* registry harness: the last registry call and what it returned
    prepared_tx_cache,    \* PreparedTxCache.cache : token -> PreparedTx
    now,                  \* the clock, in seconds
    ticks,                \* how many times the clock has advanced
    main,                 \* the main loop / execute_buy: its position and locals
    pre,                  \* the pre-signal handler task: its position and locals
    mon,                  \* the position monitor task: its position and locals
    shutdown_sent,        \* the shutdown broadcast has been sent
    trade_results,        \* how many results were pushed on the results list, by kind
    buys_done,            \* per token: buys that registered a Position
    sells_done,           \* per token: sells that removed the Position
    tx_uses,              \* per prepared transaction: buy attempts that took its bytes
    queue,                \* the signal list on the bus: LPUSH at the left, BRPOP at the right
    published,            \* how many payloads the upstream detector has pushed
    signal_rx,            \* the unbounded channel from the listener task to the main loop
    lis,                  \* the listener task RedisListener::subscribe spawns
    rx_open,              \* the receiver of the signal channel has not been dropped
    subscribe_rx,         \* the channel from subscribe_token to the price-feed handler
    ws,                   \* the price-feed handler task (PumpPortalClient::ws_handler)
    conn,                 \* the websocket connection, as the feed's server has it
    prices,               \* the price cache get_price reads
    price_rx,             \* the channel of price updates to the monitor
    feed_log              \* tokens passed to subscribe_token; events and drops so far

vars == << positions, last_call, prepared_tx_cache, now, ticks, main, pre, mon,
           shutdown_sent, trade_results, buys_done, sells_done, tx_uses,
           queue, published, signal_rx, lis, rx_open,
           subscribe_rx, ws, conn, prices, price_rx, feed_log >>

listener_vars == << queue, published, signal_rx, lis, rx_open >>

feed_vars == << subscribe_rx, ws, conn, prices, price_rx, feed_log >>

-----------------------------------------------------------------------------
(* Bounds of the model and input sets *)

MaxSignals == 2          \* signals the main loop consumes
MaxPreSignals == 1       \* pre-signals the handler consumes
MaxTicks == 1            \* clock advances
MaxCalls == 4            \* registry harness: calls made on the registry
MaxWarmups == 3          \* warm-up harness: pre-signals the handler consumes

Tokens == {"T1"}

Prices == {60, 100, 160}                 \* prices the feeds report (program runs)
RegPrices == {0, 70, 75, 100, 130, 150, 180}  \* prices tried against a Position (harness)
SyncPrices == {100, 200}                 \* real prices offered to sync_entry_price (harness)
EntryPrices == {0, 100}                  \* entry price of a new Position (0: signal had none)
Amounts == {0, 7, 200}                   \* token amounts of a new Position (harness)
SlPercents == {25}                       \* stop_loss_percent of a signal
RegSlPercents == {-25, 25}               \* stop_loss_percent of a new Position (harness)
TpPercents == {50}
SignalTypes == {"ninja", "NINJA", "consensus"}   \* signal_type of a signal, as sent
PositionSignalTypes == {"ninja", ""}
StageArgs == 1..4                        \* stage arguments offered to advance_scaled_exit
SellPercentArgs == {-10, 75, 80, 100, 150}
TokensSoldArgs == {0, 3, 500}
TimeSteps == {60}                        \* seconds the clock may advance by in one step

-----------------------------------------------------------------------------
(* Position (position/mod.rs) *)

Abs(x) == IF x < 0 THEN -x ELSE x

\* f64 -> u64 cast of a quotient num/100: truncates, and saturates at 0 below
CastU64Div100(num) == IF num < 0 THEN 0 ELSE num \div 100

\* variant: a plain subtraction, which goes below zero
UncheckedSub(a, b) == a - b

\* u64::saturating_sub
SaturatingSub(a, b) == IF b > a THEN 0 ELSE a - b

NINJA_TP1_PERCENT == 30
NINJA_TP2_PERCENT == 50
NINJA_TP3_PERCENT == 80
NINJA_TP1_SELL_PERCENT == 80
NINJA_TP2_SELL_PERCENT == 75
NINJA_TP3_SELL_PERCENT == 100
PRICE_SYNC_WAIT_SECS == 3
MAX_SELL_FAILURES == 3

StopLossLevel(entry_price, stop_loss_percent) ==
    entry_price * (100 - Abs(stop_loss_percent))

TakeProfitLevel(entry_price, take_profit_percent) ==
    entry_price * (100 + Abs(take_profit_percent))

new_with_signal_type(token_mint, entry_price, amount_tokens, stop_loss_percent, take_profit_percent, is_pumpfun, signal_type) ==
    [ token_mint |-> token_mint,
      entry_price |-> entry_price,
      amount_tokens |-> amount_tokens,
      stop_loss_percent |-> stop_loss_percent,
      take_profit_percent |-> take_profit_percent,
      stop_loss_price |-> StopLossLevel(entry_price, stop_loss_percent),
      take_profit_price |-> TakeProfitLevel(entry_price, take_profit_percent),
      entry_time |-> now,
      failed_sell_attempts |-> 0,
      is_unsellable |-> FALSE,
      is_pumpfun |-> is_pumpfun,
      price_synced |-> FALSE,
      high_price |-> entry_price,
      signal_type |-> signal_type,
      scaled_exit_stage |-> 0,
      original_amount_tokens |-> amount_tokens ]

\* Position::new: the signal type defaults to the empty string
PositionNew(token_mint, entry_price, amount_tokens, stop_loss_percent, take_profit_percent, is_pumpfun) ==
    new_with_signal_type(token_mint, entry_price, amount_tokens, stop_loss_percent,
                         take_profit_percent, is_pumpfun, "")

is_waiting_for_price_sync(p) == now - p.entry_time < PRICE_SYNC_WAIT_SECS

\* variant: the venue is not looked at
needs_price_sync_any_venue(p) == ~p.price_synced

needs_price_sync(p) == p.is_pumpfun /\ ~p.price_synced

\* variant: the sync overwrites the entry price but keeps the old levels
sync_with_real_price_keeping_levels(p, real_price) ==
    IF p.price_synced THEN p
    ELSE [p EXCEPT !.entry_price = real_price,
                   !.high_price = real_price,
                   !.price_synced = TRUE]

sync_with_real_price(p, real_price) ==
    IF p.price_synced THEN p
    ELSE [p EXCEPT !.entry_price = real_price,
                   !.high_price = real_price,
                   !.price_synced = TRUE,
                   !.stop_loss_price = StopLossLevel(real_price, p.stop_loss_percent),
                   !.take_profit_price = TakeProfitLevel(real_price, p.take_profit_percent)]

PositionUpdateHighPrice(p, current_price) ==
    IF current_price > p.high_price THEN [p EXCEPT !.high_price = current_price] ELSE p

is_ninja(p) == p.signal_type = "ninja"

\* profit_percent >= threshold, where profit_percent = (price / entry - 1) * 100 in f64:
\* a zero entry price gives +inf for a positive price and NaN (never >=) for a zero one
ProfitAtLeast(p, current_price, threshold) ==
    IF p.entry_price > 0
    THEN (current_price - p.entry_price) * 100 >= threshold * p.entry_price
    ELSE current_price > 0

NoExit == [kind |-> "None"]
StopLoss == [kind |-> "StopLoss"]
TakeProfit == [kind |-> "TakeProfit"]
Manual == [kind |-> "Manual"]
ScaledTakeProfit(stage, sell_percent, trigger_percent) ==
    [kind |-> "ScaledTakeProfit", stage |-> stage, sell_percent |-> sell_percent,
     trigger_percent |-> trigger_percent]

\* variant: the unsellable flag is not looked at
check_exit_ignoring_unsellable(p, current_price) ==
    IF needs_price_sync(p) THEN NoExit
    ELSE IF current_price * 100 <= p.stop_loss_price THEN StopLoss
    ELSE IF current_price * 100 >= p.take_profit_price THEN TakeProfit
    ELSE NoExit

\* variant: the take-profit level is tested before the stop-loss level
check_exit_take_profit_first(p, current_price) ==
    IF p.is_unsellable THEN NoExit
    ELSE IF needs_price_sync(p) THEN NoExit
    ELSE IF ~is_ninja(p) /\ current_price * 100 >= p.take_profit_price THEN TakeProfit
    ELSE IF current_price * 100 <= p.stop_loss_price THEN StopLoss
    ELSE NoExit

\* variant: a ninja Position reports the highest threshold the price has reached
check_exit_highest_stage(p, current_price) ==
    IF p.is_unsellable THEN NoExit
    ELSE IF needs_price_sync(p) THEN NoExit
    ELSE IF current_price * 100 <= p.stop_loss_price THEN StopLoss
    ELSE IF is_ninja(p)
         THEN IF p.scaled_exit_stage <= 2 /\ ProfitAtLeast(p, current_price, NINJA_TP3_PERCENT)
              THEN ScaledTakeProfit(3, NINJA_TP3_SELL_PERCENT, NINJA_TP3_PERCENT)
              ELSE IF p.scaled_exit_stage <= 1 /\ ProfitAtLeast(p, current_price, NINJA_TP2_PERCENT)
              THEN ScaledTakeProfit(2, NINJA_TP2_SELL_PERCENT, NINJA_TP2_PERCENT)
              ELSE IF p.scaled_exit_stage = 0 /\ ProfitAtLeast(p, current_price, NINJA_TP1_PERCENT)
              THEN ScaledTakeProfit(1, NINJA_TP1_SELL_PERCENT, NINJA_TP1_PERCENT)
              ELSE NoExit
         ELSE IF current_price * 100 >= p.take_profit_price THEN TakeProfit
              ELSE NoExit

check_exit(p, current_price) ==
    IF p.is_unsellable THEN NoExit
    ELSE IF needs_price_sync(p) THEN NoExit
    ELSE IF current_price * 100 <= p.stop_loss_price THEN StopLoss
    ELSE IF is_ninja(p)
         THEN IF p.scaled_exit_stage = 0 /\ ProfitAtLeast(p, current_price, NINJA_TP1_PERCENT)
              THEN ScaledTakeProfit(1, NINJA_TP1_SELL_PERCENT, NINJA_TP1_PERCENT)
              ELSE IF p.scaled_exit_stage = 1 /\ ProfitAtLeast(p, current_price, NINJA_TP2_PERCENT)
              THEN ScaledTakeProfit(2, NINJA_TP2_SELL_PERCENT, NINJA_TP2_PERCENT)
              ELSE IF p.scaled_exit_stage = 2 /\ ProfitAtLeast(p, current_price, NINJA_TP3_PERCENT)
              THEN ScaledTakeProfit(3, NINJA_TP3_SELL_PERCENT, NINJA_TP3_PERCENT)
              ELSE NoExit
         ELSE IF current_price * 100 >= p.take_profit_price THEN TakeProfit
              ELSE NoExit

\* variant: the percentage is taken of the original amount
TokensToSellOfOriginal(p, sell_percent) == CastU64Div100(p.original_amount_tokens * sell_percent)

TokensToSell(p, sell_percent) == CastU64Div100(p.amount_tokens * sell_percent)

PositionAdvanceScaledExit(p, stage, sell_percent) ==
    [p EXCEPT !.amount_tokens = SaturatingSub(p.amount_tokens, TokensToSell(p, sell_percent)),
              !.scaled_exit_stage = stage]

is_fully_closed(p) == p.amount_tokens = 0


-----------------------------------------------------------------------------
(* PositionManager (position/mod.rs): operations on the token -> Position map *)

NoMap == [t \in {} |-> 0]

\* mints the price feed is asked about
FeedTokens == {"T1", "T2"}

\* no websocket connection: nothing subscribed, no subscribe message written
NoConnection == [state |-> "none", subs |-> {}, sent |-> [t \in FeedTokens |-> 0]]

MapInsert(m, t, v) == [x \in DOMAIN m \cup {t} |-> IF x = t THEN v ELSE m[x]]

MapRemove(m, t) == [x \in DOMAIN m \ {t} |-> m[x]]

has_position(m, t) == t \in DOMAIN m

add_position(m, p) == MapInsert(m, p.token_mint, p)

remove_position(m, t) == MapRemove(m, t)

\* variant: the threshold test is > instead of >=
increment_failed_sell_late(m, t) ==
    IF has_position(m, t)
    THEN LET n == m[t].failed_sell_attempts + 1
         IN  [m EXCEPT ![t] = [m[t] EXCEPT !.failed_sell_attempts = n,
                                           !.is_unsellable =
                                               IF n > MAX_SELL_FAILURES THEN TRUE
                                               ELSE m[t].is_unsellable]]
    ELSE m

\* variant: counting a failed sell also writes the Position's tokens off
increment_failed_sell_clearing_tokens(m, t) ==
    IF has_position(m, t)
    THEN [m EXCEPT ![t] = [m[t] EXCEPT !.failed_sell_attempts = @ + 1, !.amount_tokens = 0]]
    ELSE m

increment_failed_sell(m, t) ==
    IF has_position(m, t)
    THEN LET n == m[t].failed_sell_attempts + 1
         IN  [m EXCEPT ![t] = [m[t] EXCEPT !.failed_sell_attempts = n,
                                           !.is_unsellable =
                                               IF n >= MAX_SELL_FAILURES THEN TRUE
                                               ELSE m[t].is_unsellable]]
    ELSE m

\* the value increment_failed_sell returns: the position was marked unsellable
increment_failed_sell_ret(m, t) ==
    has_position(m, t) /\ m[t].failed_sell_attempts + 1 >= MAX_SELL_FAILURES

mark_unsellable(m, t) ==
    IF has_position(m, t) THEN [m EXCEPT ![t].is_unsellable = TRUE] ELSE m

sync_entry_price(m, t, real_price) ==
    IF has_position(m, t) /\ needs_price_sync(m[t])
    THEN [m EXCEPT ![t] = sync_with_real_price(m[t], real_price)]
    ELSE m

sync_entry_price_ret(m, t) == has_position(m, t) /\ needs_price_sync(m[t])

update_high_price(m, t, current_price) ==
    IF has_position(m, t)
    THEN [m EXCEPT ![t] = PositionUpdateHighPrice(m[t], current_price)]
    ELSE m

advance_scaled_exit(m, t, stage, sell_percent) ==
    IF has_position(m, t)
    THEN [m EXCEPT ![t] = PositionAdvanceScaledExit(m[t], stage, sell_percent)]
    ELSE m

NoReturn == [some |-> FALSE]

\* Option<(tokens_to_sell, fully_closed)>
advance_scaled_exit_ret(m, t, stage, sell_percent) ==
    IF has_position(m, t)
    THEN [some |-> TRUE,
          tokens_to_sell |-> TokensToSell(m[t], sell_percent),
          fully_closed |-> is_fully_closed(PositionAdvanceScaledExit(m[t], stage, sell_percent))]
    ELSE NoReturn

update_tokens_after_sell(m, t, tokens_sold) ==
    IF has_position(m, t)
    THEN [m EXCEPT ![t].amount_tokens = SaturatingSub(m[t].amount_tokens, tokens_sold)]
    ELSE m

-----------------------------------------------------------------------------
(* Initial state: SpectreTrader::new and the tasks main() starts *)

NoCall == [n |-> 0, op |-> "none", token |-> "", real_price |-> 0, args |-> << >>, ret |-> NoReturn]

NoSignal == [token_mint |-> "", signal_type |-> "", entry_price_usd |-> 0,
             stop_loss_percent |-> 0, take_profit_percent |-> 0]

NoError == [prefix |-> "", detail |-> ""]
NoResult == [kind |-> "none", success |-> FALSE, error |-> NoError, attempt_number |-> 0]
NoPreparedTx == [some |-> FALSE]
NoBytes == [src |-> "none", id |-> 0, attempt |-> 0]
NoPosition == [token_mint |-> ""]

MainIdle(consumed) ==
    [pc |-> "recv", signal |-> NoSignal, consumed |-> consumed, attempt |-> 0,
     prepared_tx |-> NoPreparedTx, read_at |-> 0, tx_bytes |-> NoBytes, out_amount |-> 0,
     current_price |-> 0, via |-> "", result |-> NoResult]

\* built counts the transactions the handler has built and cached so far
PreIdle(consumed, built) ==
    [pc |-> "recv", token_mint |-> "", consumed |-> consumed, built |-> built]

MonIdle(tick_positions) ==
    [pc |-> IF tick_positions = << >> THEN "select" ELSE "tick",
     token_mint |-> "", exit_reason |-> NoExit, position |-> NoPosition, attempt |-> 0,
     slippage |-> 0, result |-> NoResult,
     tick_positions |-> tick_positions]

Init ==
    /\ positions = NoMap
    /\ last_call = NoCall
    /\ prepared_tx_cache = NoMap
    /\ now = 0
    /\ ticks = 0
    /\ main = MainIdle(0)
    /\ pre = PreIdle(0, 0)
    /\ mon = MonIdle(<< >>)
    /\ shutdown_sent = FALSE
    /\ trade_results = [buy |-> 0, sell |-> 0]
    /\ buys_done = [t \in Tokens |-> 0]
    /\ sells_done = [t \in Tokens |-> 0]
    /\ tx_uses = [id \in 1..MaxPreSignals |-> 0]
    /\ queue = << >>
    /\ published = 0
    /\ signal_rx = << >>
    /\ lis = [pc |-> "connect"]
    /\ rx_open = TRUE
    /\ subscribe_rx = << >>
    /\ ws = [pc |-> "connect", subscribed_tokens |-> << >>, reconnect_delay |-> 1, slept |-> 0]
    /\ conn = NoConnection
    /\ prices = NoMap
    /\ price_rx = << >>
    /\ feed_log = [requested |-> {}, calls |-> 0, events |-> 0, drops |-> 0, last_event |-> NoMap, last_priced |-> NoMap]

-----------------------------------------------------------------------------
(* Registry harness: every registry operation, called with inputs drawn    *)
(* from the bounded sets above, in any order.                              *)

program_vars == << prepared_tx_cache, now, ticks, main, pre, mon, shutdown_sent,
                   trade_results, buys_done, sells_done, tx_uses, listener_vars, feed_vars >>

\* last_call records the operation, its token, what it returned and, for
\* sync_entry_price, the real price it was given
Called(op, t, real_price, ret) ==
    /\ last_call.n < MaxCalls
    /\ last_call' = [n |-> last_call.n + 1, op |-> op, token |-> t,
                     real_price |-> real_price, args |-> << >>, ret |-> ret]
    /\ UNCHANGED program_vars

\* the same, for advance_scaled_exit: its stage and sell percent are recorded in args
CalledWith(op, t, args, ret) ==
    /\ last_call.n < MaxCalls
    /\ last_call' = [n |-> last_call.n + 1, op |-> op, token |-> t,
                     real_price |-> 0, args |-> args, ret |-> ret]
    /\ UNCHANGED program_vars

RegAddPosition(t, entry_price, amount_tokens, sl, tp, is_pumpfun, signal_type) ==
    /\ positions' = add_position(positions,
                        new_with_signal_type(t, entry_price, amount_tokens, sl, tp,
                                             is_pumpfun, signal_type))
    /\ Called("add_position", t, 0, NoReturn)

RegRemovePosition(t) ==
    /\ positions' = remove_position(positions, t)
    /\ Called("remove_position", t, 0, [some |-> has_position(positions, t)])

RegIncrementFailedSell(t) ==
    /\ positions' = increment_failed_sell(positions, t)
    /\ Called("increment_failed_sell", t, 0, increment_failed_sell_ret(positions, t))

RegMarkUnsellable(t) ==
    /\ positions' = mark_unsellable(positions, t)
    /\ Called("mark_unsellable", t, 0, NoReturn)

RegSyncEntryPrice(t, real_price) ==
    /\ positions' = sync_entry_price(positions, t, real_price)
    /\ Called("sync_entry_price", t, real_price, sync_entry_price_ret(positions, t))

RegUpdateHighPrice(t, current_price) ==
    /\ positions' = update_high_price(positions, t, current_price)
    /\ Called("update_high_price", t, 0, NoReturn)

RegAdvanceScaledExit(t, stage, sell_percent) ==
    /\ positions' = advance_scaled_exit(positions, t, stage, sell_percent)
    /\ CalledWith("advance_scaled_exit", t, << stage, sell_percent >>,
                  advance_scaled_exit_ret(positions, t, stage, sell_percent))

RegUpdateTokensAfterSell(t, tokens_sold) ==
    /\ positions' = update_tokens_after_sell(positions, t, tokens_sold)
    /\ Called("update_tokens_after_sell", t, 0, NoReturn)

RegNext ==
    \/ \E t \in Tokens, e \in EntryPrices, a \in Amounts, sl \in RegSlPercents,
          tp \in TpPercents, pf \in BOOLEAN, st \in PositionSignalTypes :
            RegAddPosition(t, e, a, sl, tp, pf, st)
    \/ \E t \in Tokens : RegRemovePosition(t)
    \/ \E t \in Tokens : RegIncrementFailedSell(t)
    \/ \E t \in Tokens : RegMarkUnsellable(t)
    \/ \E t \in Tokens, p \in SyncPrices : RegSyncEntryPrice(t, p)
    \/ \E t \in Tokens, p \in Prices : RegUpdateHighPrice(t, p)
    \/ \E t \in Tokens, s \in StageArgs, pct \in SellPercentArgs :
            RegAdvanceScaledExit(t, s, pct)
    \/ \E t \in Tokens, n \in TokensSoldArgs : RegUpdateTokensAfterSell(t, n)

RegSpec == Init /\ [][RegNext]_vars


-----------------------------------------------------------------------------
(* Configuration (config/mod.rs) and the constants of trader.rs.           *)
(* trade_amount_sol is in units that the quote amounts below divide.       *)

trade_amount_sol == 15600
slippage_bps == 1500
SOL_PRICE_ESTIMATE == 200
expiry_secs == 60
PUMPFUN_BUY_MAX_ATTEMPTS == 2
JUPITER_BUY_MAX_ATTEMPTS == 2
MAX_PRICE_CHANGE_PERCENT == 30
PUMPFUN_MAX_SELL_ATTEMPTS == 3
JUPITER_MAX_SELL_ATTEMPTS == 5

SignalPrices == {0, 100}        \* entry_price_usd of a signal; 0 stands for None
OutAmounts == {0, 100, 120, 156}   \* out_amount of a quote; 0: unparsable or empty
Details == {"no route", "COULD_NOT_FIND", "timeout"}   \* what a venue's error text says

Signals ==
    [token_mint : Tokens, signal_type : SignalTypes, entry_price_usd : SignalPrices,
     stop_loss_percent : SlPercents, take_profit_percent : TpPercents]

-----------------------------------------------------------------------------
(* PreparedTxCache (trader.rs) *)

\* variant: an entry already cached for the token is kept
PreparedTxCacheInsertIfAbsent(cache, t, prepared) ==
    IF t \in DOMAIN cache THEN cache ELSE MapInsert(cache, t, prepared)

PreparedTxCacheInsert(cache, t, prepared) == MapInsert(cache, t, prepared)

\* variant: remove leaves the cache as it is
PreparedTxCacheKeep(cache, t) == cache

\* variant: the entry is returned whatever its age
PreparedTxCacheGetAnyAge(cache, t) ==
    IF t \in DOMAIN cache
    THEN [some |-> TRUE, tx_bytes |-> cache[t].tx_bytes, created_at |-> cache[t].created_at]
    ELSE NoPreparedTx

PreparedTxCacheGet(cache, t) ==
    IF t \in DOMAIN cache /\ now - cache[t].created_at < expiry_secs
    THEN [some |-> TRUE, tx_bytes |-> cache[t].tx_bytes, created_at |-> cache[t].created_at]
    ELSE NoPreparedTx

PreparedTxCacheRemove(cache, t) == MapRemove(cache, t)

cleanup_expired(cache) ==
    [t \in {x \in DOMAIN cache : now - cache[x].created_at < expiry_secs} |-> cache[t]]

-----------------------------------------------------------------------------
(* SpectreTrader: pre-signal warm-up and the buy path (trader.rs) *)

Error(prefix, detail) == [prefix |-> prefix, detail |-> detail]

\* variant: the result is built with the success flag set
create_error_result_as_success(error, attempt) ==
    [kind |-> "Ok", success |-> TRUE, error |-> error, attempt_number |-> attempt]

\* create_error_result, and the inline failure result of the price-jump veto
create_error_result(error, attempt) ==
    [kind |-> "Ok", success |-> FALSE, error |-> error, attempt_number |-> attempt]

SuccessResult(attempt) ==
    [kind |-> "Ok", success |-> TRUE, error |-> NoError, attempt_number |-> attempt]

\* a Result::Err leaving the function
ErrReturn(error) ==
    [kind |-> "Err", success |-> FALSE, error |-> error, attempt_number |-> 0]

\* str::to_lowercase, on the signal types of the model
to_lowercase(s) == IF s = "NINJA" THEN "ninja" ELSE s

\* the pre-signal handler task of main(): recv, then prepare_tx_for_presignal
PreSignalRecvUpTo(t, max_consumed) ==
    /\ pre.pc = "recv"
    /\ pre.consumed < max_consumed
    /\ ~(main.pc = "done" /\ mon.pc = "stopped")
    /\ pre' = IF has_position(positions, t)
              THEN PreIdle(pre.consumed + 1, pre.built)
              ELSE [pc |-> "build", token_mint |-> t, consumed |-> pre.consumed + 1,
                    built |-> pre.built]
    /\ UNCHANGED << positions, last_call, prepared_tx_cache, now, ticks, main, mon,
                    shutdown_sent, trade_results, buys_done, sells_done, tx_uses, listener_vars, feed_vars >>

PreSignalRecv(t) == PreSignalRecvUpTo(t, MaxPreSignals)

\* get_buy_transaction returned: insert the PreparedTx, or log the error
PreSignalBuild(ok) ==
    /\ pre.pc = "build"
    /\ ~(main.pc = "done" /\ mon.pc = "stopped")
    /\ prepared_tx_cache' =
         IF ok
         THEN PreparedTxCacheInsert(prepared_tx_cache, pre.token_mint,
                  [token_mint |-> pre.token_mint,
                   tx_bytes |-> [src |-> "prepared", id |-> pre.consumed, attempt |-> 0],
                   created_at |-> now])
         ELSE prepared_tx_cache
    /\ pre' = PreIdle(pre.consumed, IF ok THEN pre.built + 1 ELSE pre.built)
    /\ UNCHANGED << positions, last_call, now, ticks, main, mon,
                    shutdown_sent, trade_results, buys_done, sells_done, tx_uses, listener_vars, feed_vars >>

\* execute_buy returns to the main loop: the callee's locals are gone
BuyReturns(result) ==
    [MainIdle(main.consumed) EXCEPT !.pc = "result", !.signal = main.signal,
                                    !.result = result]

\* variant: one attempt more than the maximum is made
RetryOrFailOnceMore(max_attempts, retry_pc, error) ==
    IF main.attempt <= max_attempts
    THEN [main EXCEPT !.pc = retry_pc, !.attempt = main.attempt + 1,
                      !.tx_bytes = NoBytes, !.out_amount = 0, !.current_price = 0]
    ELSE BuyReturns(create_error_result(error, main.attempt))

\* what a failed attempt does: retry while attempts remain, else the failure result
RetryOrFail(max_attempts, retry_pc, error) ==
    IF main.attempt < max_attempts
    THEN [main EXCEPT !.pc = retry_pc, !.attempt = main.attempt + 1,
                      !.tx_bytes = NoBytes, !.out_amount = 0, !.current_price = 0]
    ELSE BuyReturns(create_error_result(error, main.attempt))

main_frame == << last_call, now, ticks, pre, mon, shutdown_sent, sells_done, tx_uses, listener_vars, feed_vars >>

\* variant: execute_buy routes without looking at the registry
ExecuteBuyUnchecked(signal) ==
    /\ main.pc = "recv"
    /\ main.consumed < MaxSignals
    /\ main' = [MainIdle(main.consumed + 1) EXCEPT
                  !.pc = IF to_lowercase(signal.signal_type) = "ninja" THEN "pumpfun_start"
                         ELSE "jupiter_quote",
                  !.signal = signal, !.attempt = 1]
    /\ UNCHANGED << positions, prepared_tx_cache, trade_results, buys_done >>
    /\ UNCHANGED main_frame

\* execute_buy's first lines: the registry check and the routing by signal type
ExecuteBuyEntry(signal) ==
    IF has_position(positions, signal.token_mint)
    THEN [MainIdle(main.consumed + 1) EXCEPT
             !.pc = "result", !.signal = signal,
             !.result = create_error_result(Error("Already have position", ""), 1)]
    ELSE [MainIdle(main.consumed + 1) EXCEPT
             !.pc = IF to_lowercase(signal.signal_type) = "ninja" THEN "pumpfun_start"
                    ELSE "jupiter_quote",
             !.signal = signal, !.attempt = 1]

\* main loop: a signal is received; execute_buy checks the registry and routes
ExecuteBuy(signal) ==
    /\ main.pc = "recv"
    /\ main.consumed < MaxSignals
    /\ main' = ExecuteBuyEntry(signal)
    /\ UNCHANGED << positions, prepared_tx_cache, trade_results, buys_done >>
    /\ UNCHANGED main_frame

\* execute_buy_pumpfun: read the prepared-transaction cache (read_at notes when)
PumpfunStart ==
    /\ main.pc = "pumpfun_start"
    /\ main' = [main EXCEPT !.pc = "pumpfun_tx",
                   !.prepared_tx = PreparedTxCacheGet(prepared_tx_cache, main.signal.token_mint),
                   !.read_at = now]
    /\ UNCHANGED << positions, prepared_tx_cache, trade_results, buys_done >>
    /\ UNCHANGED main_frame

FreshBytes == [src |-> "fresh", id |-> main.consumed, attempt |-> main.attempt]

\* step 1 of an attempt: the transaction bytes, from the cache or from the venue
PumpfunGetTx(fetch_ok, detail) ==
    /\ main.pc = "pumpfun_tx"
    /\ main' =
         IF main.prepared_tx.some
         THEN IF main.attempt = 1
              THEN [main EXCEPT !.pc = "pumpfun_sign", !.tx_bytes = main.prepared_tx.tx_bytes]
              ELSE IF fetch_ok
              THEN [main EXCEPT !.pc = "pumpfun_sign", !.tx_bytes = FreshBytes]
              ELSE BuyReturns(ErrReturn(Error("PumpPortal API error", detail)))
         ELSE IF fetch_ok
              THEN [main EXCEPT !.pc = "pumpfun_sign", !.tx_bytes = FreshBytes]
              ELSE RetryOrFail(PUMPFUN_BUY_MAX_ATTEMPTS, "pumpfun_tx",
                               Error("PumpPortal failed", detail))
    /\ tx_uses' = IF main.prepared_tx.some /\ main.attempt = 1
                  THEN [tx_uses EXCEPT ![main.prepared_tx.tx_bytes.id] = @ + 1]
                  ELSE tx_uses
    /\ UNCHANGED << positions, prepared_tx_cache, trade_results, buys_done >>
    /\ UNCHANGED << last_call, now, ticks, pre, mon, shutdown_sent, sells_done,
                    listener_vars, feed_vars >>

\* remove the cache entry when a prepared transaction was read, then step 2: sign
PumpfunRemoveAndSign(sign_ok) ==
    /\ main.pc = "pumpfun_sign"
    /\ prepared_tx_cache' =
         IF main.prepared_tx.some
         THEN PreparedTxCacheRemove(prepared_tx_cache, main.signal.token_mint)
         ELSE prepared_tx_cache
    /\ main' = IF sign_ok THEN [main EXCEPT !.pc = "pumpfun_send"]
               ELSE RetryOrFail(PUMPFUN_BUY_MAX_ATTEMPTS, "pumpfun_tx",
                                Error("Sign failed", ""))
    /\ UNCHANGED << positions, trade_results, buys_done >>
    /\ UNCHANGED main_frame

Submissions == {"jito", "rpc", "failed"}

\* step 3: the bundle, with the RPC fallback when the bundle failed
PumpfunSend(outcome) ==
    /\ main.pc = "pumpfun_send"
    /\ main' = IF outcome = "failed"
               THEN RetryOrFail(PUMPFUN_BUY_MAX_ATTEMPTS, "pumpfun_tx", Error("TX failed", ""))
               ELSE [main EXCEPT !.pc = "pumpfun_add", !.via = outcome]
    /\ UNCHANGED << positions, prepared_tx_cache, trade_results, buys_done >>
    /\ UNCHANGED main_frame

EstimatedTokens(entry_price) ==
    IF entry_price > 0 THEN (trade_amount_sol * SOL_PRICE_ESTIMATE) \div entry_price ELSE 0

PumpfunPosition(signal) ==
    PositionNew(signal.token_mint, signal.entry_price_usd,
                EstimatedTokens(signal.entry_price_usd),
                signal.stop_loss_percent, signal.take_profit_percent, TRUE)

\* register the Position and return the success result
PumpfunAdd ==
    /\ main.pc = "pumpfun_add"
    /\ positions' = add_position(positions, PumpfunPosition(main.signal))
    /\ buys_done' = [buys_done EXCEPT ![main.signal.token_mint] = @ + 1]
    /\ main' = BuyReturns(SuccessResult(main.attempt))
    /\ UNCHANGED << prepared_tx_cache, trade_results >>
    /\ UNCHANGED main_frame

\* current_price = trade_amount_sol / out_amount, None (0) when out_amount is 0
QuotePrice(out_amount) ==
    IF out_amount > 0 THEN trade_amount_sol \div out_amount ELSE 0

\* variant: the veto also fires at exactly the maximum
PriceJumpedAtThreshold(signal_price, current_price) ==
    /\ signal_price > 0
    /\ current_price > 0
    /\ (current_price - signal_price) * 100 >= MAX_PRICE_CHANGE_PERCENT * signal_price

\* price_change_percent > MAX_PRICE_CHANGE_PERCENT, when both prices are known
PriceJumped(signal_price, current_price) ==
    /\ signal_price > 0
    /\ current_price > 0
    /\ (current_price - signal_price) * 100 > MAX_PRICE_CHANGE_PERCENT * signal_price

\* execute_buy_jupiter, step 1: the quote, and the price-jump veto (whose result
\* carries the quote's price as price_at_trade: it stays in current_price)
JupiterQuote(quote_ok, out_amount) ==
    /\ main.pc = "jupiter_quote"
    /\ main' =
         IF ~quote_ok
         THEN RetryOrFail(JUPITER_BUY_MAX_ATTEMPTS, "jupiter_quote", Error("Quote failed", ""))
         ELSE IF PriceJumped(main.signal.entry_price_usd, QuotePrice(out_amount))
         THEN [BuyReturns(create_error_result(Error("Price jumped", ""), main.attempt))
                 EXCEPT !.current_price = QuotePrice(out_amount)]
         ELSE [main EXCEPT !.pc = "jupiter_swap",
                           !.out_amount = out_amount,
                           !.current_price = QuotePrice(out_amount)]
    /\ UNCHANGED << positions, prepared_tx_cache, trade_results, buys_done >>
    /\ UNCHANGED main_frame

SwapOutcomes == {"ok", "blockhash", "swap"}

\* step 2: blockhash and swap transaction, joined; then sign (which cannot fail)
JupiterSwap(outcome) ==
    /\ main.pc = "jupiter_swap"
    /\ main' =
         IF outcome = "blockhash"
         THEN RetryOrFail(JUPITER_BUY_MAX_ATTEMPTS, "jupiter_quote",
                          Error("Blockhash failed", ""))
         ELSE IF outcome = "swap"
         THEN RetryOrFail(JUPITER_BUY_MAX_ATTEMPTS, "jupiter_quote",
                          Error("Swap tx failed", ""))
         ELSE [main EXCEPT !.pc = "jupiter_send", !.tx_bytes = FreshBytes]
    /\ UNCHANGED << positions, prepared_tx_cache, trade_results, buys_done >>
    /\ UNCHANGED main_frame

\* step 4: the bundle, with the RPC fallback when the bundle failed
JupiterSend(outcome) ==
    /\ main.pc = "jupiter_send"
    /\ main' = IF outcome = "failed"
               THEN RetryOrFail(JUPITER_BUY_MAX_ATTEMPTS, "jupiter_quote",
                                Error("TX failed", ""))
               ELSE [main EXCEPT !.pc = "jupiter_add", !.via = outcome]
    /\ UNCHANGED << positions, prepared_tx_cache, trade_results, buys_done >>
    /\ UNCHANGED main_frame

\* actual_entry_price: the quote's price, else the signal's, else 0
JupiterPosition(signal, current_price, out_amount) ==
    PositionNew(signal.token_mint,
                IF current_price > 0 THEN current_price ELSE signal.entry_price_usd,
                out_amount, signal.stop_loss_percent, signal.take_profit_percent, FALSE)

\* step 5: register the Position and return the success result
JupiterAdd ==
    /\ main.pc = "jupiter_add"
    /\ positions' = add_position(positions,
                        JupiterPosition(main.signal, main.current_price, main.out_amount))
    /\ buys_done' = [buys_done EXCEPT ![main.signal.token_mint] = @ + 1]
    /\ main' = BuyReturns(SuccessResult(main.attempt))
    /\ UNCHANGED << prepared_tx_cache, trade_results >>
    /\ UNCHANGED main_frame

\* push_trade_result calls the main loop makes for a returned buy (main.rs: one for
\* Ok(result) with result.success, none for a failure result or an Err)
MainPublishes(result) ==
    IF result.kind = "Ok" /\ result.success THEN 1 ELSE 0

\* main loop: the match on execute_buy's return value
MainHandleResult ==
    /\ main.pc = "result"
    /\ trade_results' = [trade_results EXCEPT !.buy = @ + MainPublishes(main.result)]
    /\ main' = MainIdle(main.consumed)
    /\ UNCHANGED << positions, prepared_tx_cache, buys_done >>
    /\ UNCHANGED main_frame

\* the signal channel is closed (the listener task has ended): recv returns None, the
\* loop ends and the shutdown broadcast is sent
MainShutdown ==
    /\ main.pc = "recv"
    /\ main' = [main EXCEPT !.pc = "done"]
    /\ shutdown_sent' = TRUE
    /\ UNCHANGED << positions, last_call, prepared_tx_cache, now, ticks, pre, mon,
                    trade_results, buys_done, sells_done, tx_uses, listener_vars, feed_vars >>

Tick(d) ==
    /\ ticks < MaxTicks
    /\ ticks' = ticks + 1
    /\ now' = now + d
    /\ UNCHANGED << positions, last_call, prepared_tx_cache, main, pre, mon,
                    shutdown_sent, trade_results, buys_done, sells_done, tx_uses, listener_vars, feed_vars >>

-----------------------------------------------------------------------------
(* Position monitor (main.rs: position_monitor, execute_exit) and the sell *)
(* path (trader.rs: execute_sell and its two venues)                       *)

mon_frame == << last_call, prepared_tx_cache, now, ticks, main, pre, shutdown_sent,
                buys_done, tx_uses, listener_vars, feed_vars >>

\* the registry call the monitor makes before it evaluates a price (main.rs names it
\* update_trailing_sl; the registry's operation of that role is update_high_price)
update_trailing_sl(m, t, current_price) == update_high_price(m, t, current_price)

PumpfunSellSlippage(attempt) == (slippage_bps \div 100) + (attempt - 1) * 5

\* variant: the extra slippage of an aggregator sell does not grow with the attempt
JupiterSellSlippageFlat(attempt) == slippage_bps + 500

JupiterSellSlippage(attempt) == slippage_bps + 500 + (attempt - 1) * 200

\* execute_sell returns to execute_exit: the callee's locals are gone
SellReturns(frame, result) ==
    [MonIdle(frame.tick_positions) EXCEPT !.pc = "exit_result",
                                          !.token_mint = frame.token_mint,
                                          !.result = result]

\* variant: every sell goes to the aggregator venue
ExecuteSellStartAggregatorOnly(m, frame) ==
    IF ~has_position(m, frame.token_mint)
    THEN SellReturns(frame, ErrReturn(Error("No position found", "")))
    ELSE [frame EXCEPT !.pc = "sell_jupiter", !.position = m[frame.token_mint],
                       !.attempt = 1, !.slippage = JupiterSellSlippage(1)]

\* variant: a sell for a token without a Position goes on to the aggregator venue
ExecuteSellStartWithoutPosition(m, frame) ==
    IF ~has_position(m, frame.token_mint)
    THEN [frame EXCEPT !.pc = "sell_jupiter", !.attempt = 1, !.slippage = JupiterSellSlippage(1)]
    ELSE [frame EXCEPT !.pc = IF m[frame.token_mint].is_pumpfun THEN "sell_pumpfun" ELSE "sell_jupiter",
                       !.position = m[frame.token_mint], !.attempt = 1,
                       !.slippage = IF m[frame.token_mint].is_pumpfun THEN PumpfunSellSlippage(1)
                                    ELSE JupiterSellSlippage(1)]

\* execute_exit -> execute_sell: read the Position and route by its venue flag
ExecuteSellStart(m, frame) ==
    IF ~has_position(m, frame.token_mint)
    THEN SellReturns(frame, ErrReturn(Error("No position found", "")))
    ELSE LET p == m[frame.token_mint]
         IN  [frame EXCEPT !.pc = IF p.is_pumpfun THEN "sell_pumpfun" ELSE "sell_jupiter",
                           !.position = p, !.attempt = 1,
                           !.slippage = IF p.is_pumpfun THEN PumpfunSellSlippage(1)
                                        ELSE JupiterSellSlippage(1)]

\* the evaluation both paths end with: check_exit on the Position, then execute_exit
\* with the exit reason (the price goes into a log line only)
Evaluate(m, p, current_price, rest) ==
    IF check_exit(p, current_price) = NoExit
    THEN MonIdle(rest)
    ELSE ExecuteSellStart(m, [MonIdle(rest) EXCEPT !.token_mint = p.token_mint,
                                                   !.exit_reason = check_exit(p, current_price)])

\* variant: the price update is evaluated without the entry-price sync
MonPriceUpdateWithoutSync(t, current_price) ==
    /\ mon.pc = "select"
    /\ IF ~has_position(positions, t)
       THEN UNCHANGED << positions, mon >>
       ELSE /\ positions' = update_trailing_sl(positions, t, current_price)
            /\ mon' = Evaluate(positions', positions'[t], current_price, << >>)
    /\ UNCHANGED << trade_results, sells_done >>
    /\ UNCHANGED mon_frame

\* select!, first branch: a price update from the streaming feed
MonPriceUpdate(t, current_price) ==
    /\ mon.pc = "select"
    /\ IF ~has_position(positions, t)
       THEN UNCHANGED << positions, mon >>
       ELSE IF needs_price_sync(positions[t])
       THEN /\ positions' = sync_entry_price(positions, t, current_price)
            /\ UNCHANGED mon
       ELSE /\ positions' = update_trailing_sl(positions, t, current_price)
            /\ mon' = Evaluate(positions', positions'[t], current_price, << >>)
    /\ UNCHANGED << trade_results, sells_done >>
    /\ UNCHANGED mon_frame

Orderings(S) ==
    {seq \in [1..Cardinality(S) -> S] : \A i, j \in 1..Cardinality(S) : seq[i] = seq[j] => i = j}

\* select!, second branch: the timer fired; snapshot all positions (in HashMap order)
MonTick(order) ==
    /\ mon.pc = "select"
    /\ mon' = MonIdle([i \in 1..Len(order) |-> positions[order[i]]])
    /\ UNCHANGED << positions, trade_results, sells_done >>
    /\ UNCHANGED mon_frame

\* one position of the tick's snapshot, with the price a feed reported for it
MonTickPosition(price_ok, current_price) ==
    /\ mon.pc = "tick"
    /\ LET snapshot == Head(mon.tick_positions)
           t == snapshot.token_mint
           rest == Tail(mon.tick_positions)
       IN  IF ~price_ok
           THEN /\ mon' = MonIdle(rest)
                /\ UNCHANGED positions
           ELSE /\ positions' = update_trailing_sl(positions, t, current_price)
                /\ mon' = Evaluate(positions',
                                   IF has_position(positions', t) THEN positions'[t]
                                   ELSE snapshot,
                                   current_price, rest)
    /\ UNCHANGED << trade_results, sells_done >>
    /\ UNCHANGED mon_frame

SellFailed(max_attempts, error, slippage) ==
    IF mon.attempt < max_attempts
    THEN [mon EXCEPT !.attempt = mon.attempt + 1, !.slippage = slippage]
    ELSE SellReturns(mon, create_error_result(error, mon.attempt))

SellSucceeded ==
    /\ positions' = remove_position(positions, mon.token_mint)
    /\ sells_done' = [sells_done EXCEPT ![mon.token_mint] = @ + 1]
    /\ mon' = SellReturns(mon, SuccessResult(mon.attempt))

PumpfunSellOutcomes == {"ok", "tx", "sign", "send"}

\* execute_sell_pumpfun: one attempt
SellPumpfunAttempt(outcome, detail) ==
    /\ mon.pc = "sell_pumpfun"
    /\ IF outcome = "ok"
       THEN SellSucceeded
       ELSE /\ mon' = SellFailed(PUMPFUN_MAX_SELL_ATTEMPTS,
                         IF outcome = "tx" THEN Error("PumpPortal sell failed", detail)
                         ELSE IF outcome = "sign" THEN Error("Sign failed", "")
                         ELSE Error("TX failed", ""),
                         PumpfunSellSlippage(mon.attempt + 1))
            /\ UNCHANGED << positions, sells_done >>
    /\ UNCHANGED trade_results
    /\ UNCHANGED mon_frame

JupiterSellOutcomes == {"ok", "quote", "swap", "blockhash", "sign", "send"}

\* execute_sell_jupiter: one attempt
SellJupiterAttempt(outcome, detail) ==
    /\ mon.pc = "sell_jupiter"
    /\ IF outcome = "ok"
       THEN SellSucceeded
       ELSE /\ mon' = SellFailed(JUPITER_MAX_SELL_ATTEMPTS,
                         IF outcome = "quote" THEN Error("Sell quote failed", detail)
                         ELSE IF outcome = "swap" THEN Error("Swap TX failed", detail)
                         ELSE IF outcome = "blockhash" THEN Error("Blockhash failed", "")
                         ELSE IF outcome = "sign" THEN Error("Sign failed", "")
                         ELSE Error("TX failed", ""),
                         JupiterSellSlippage(mon.attempt + 1))
            /\ UNCHANGED << positions, sells_done >>
    /\ UNCHANGED trade_results
    /\ UNCHANGED mon_frame

\* str::contains on an error message made of a prefix and the venue's text
Contains(error, needle) ==
    \/ error.detail = needle
    \/ needle = "quote failed" /\ error.prefix = "Sell quote failed"

\* execute_exit: does this outcome of execute_sell count as a failed sell?
CountsAsFailedSell(result) ==
    IF result.kind = "Ok"
    THEN /\ ~result.success
         /\ \/ Contains(result.error, "no route")
            \/ Contains(result.error, "COULD_NOT_FIND")
            \/ Contains(result.error, "quote failed")
    ELSE \/ Contains(result.error, "no route")
         \/ Contains(result.error, "COULD_NOT_FIND")

\* execute_exit: the match on execute_sell's return value, then back to the loop
\* (the next position of the tick, or select!)
ExecuteExitHandle ==
    /\ mon.pc = "exit_result"
    /\ IF mon.result.kind = "Ok" /\ mon.result.success
       THEN /\ trade_results' = [trade_results EXCEPT !.sell = @ + 1]
            /\ UNCHANGED positions
       ELSE /\ UNCHANGED trade_results
            /\ positions' = IF CountsAsFailedSell(mon.result)
                            THEN increment_failed_sell(positions, mon.token_mint)
                            ELSE positions
    /\ mon' = MonIdle(mon.tick_positions)
    /\ UNCHANGED sells_done
    /\ UNCHANGED mon_frame

\* select!, third branch: the shutdown broadcast
MonShutdown ==
    /\ mon.pc = "select"
    /\ shutdown_sent
    /\ mon' = [mon EXCEPT !.pc = "stopped"]
    /\ UNCHANGED << positions, trade_results, sells_done >>
    /\ UNCHANGED mon_frame

-----------------------------------------------------------------------------
(* The program: the three tasks, the clock and the environment's answers *)

Next ==
    \/ \E signal \in Signals : ExecuteBuy(signal)
    \/ PumpfunStart
    \/ \E ok \in BOOLEAN : PumpfunGetTx(ok, "timeout")
    \/ \E ok \in BOOLEAN : PumpfunRemoveAndSign(ok)
    \/ \E o \in Submissions : PumpfunSend(o)
    \/ PumpfunAdd
    \/ \E ok \in BOOLEAN, out \in OutAmounts : JupiterQuote(ok, out)
    \/ \E o \in SwapOutcomes : JupiterSwap(o)
    \/ \E o \in Submissions : JupiterSend(o)
    \/ JupiterAdd
    \/ MainHandleResult
    \/ MainShutdown
    \/ \E t \in Tokens : PreSignalRecv(t)
    \/ \E ok \in BOOLEAN : PreSignalBuild(ok)
    \/ \E t \in Tokens, p \in Prices : MonPriceUpdate(t, p)
    \/ \E order \in Orderings(DOMAIN positions) : MonTick(order)
    \/ \E ok \in BOOLEAN, p \in Prices : MonTickPosition(ok, p)
    \/ \E o \in PumpfunSellOutcomes, d \in Details : SellPumpfunAttempt(o, d)
    \/ \E o \in JupiterSellOutcomes, d \in Details : SellJupiterAttempt(o, d)
    \/ ExecuteExitHandle
    \/ MonShutdown
    \/ \E d \in TimeSteps : Tick(d)

Spec == Init /\ [][Next]_vars

-----------------------------------------------------------------------------
(* Monitor harness: the position monitor and the sell path, run over        *)
(* Positions of every kind the registry accepts (add_position is public     *)
(* and takes any Position, of class ninja too).                             *)

ExitNext ==
    \/ \E t \in Tokens, e \in EntryPrices, a \in Amounts, sl \in SlPercents,
          tp \in TpPercents, pf \in BOOLEAN, st \in PositionSignalTypes :
            RegAddPosition(t, e, a, sl, tp, pf, st)
    \/ \E t \in Tokens, p \in Prices : MonPriceUpdate(t, p)
    \/ \E order \in Orderings(DOMAIN positions) : MonTick(order)
    \/ \E ok \in BOOLEAN, p \in Prices : MonTickPosition(ok, p)
    \/ \E o \in PumpfunSellOutcomes, d \in Details : SellPumpfunAttempt(o, d)
    \/ \E o \in JupiterSellOutcomes, d \in Details : SellJupiterAttempt(o, d)
    \/ ExecuteExitHandle

ExitSpec == Init /\ [][ExitNext]_vars

-----------------------------------------------------------------------------
(* Warm-up harness: the pre-signal handler, consuming several pre-signals,  *)
(* while Positions come and go in the registry and the clock advances.      *)

WarmNext ==
    \/ \E t \in Tokens : PreSignalRecvUpTo(t, MaxWarmups)
    \/ \E ok \in BOOLEAN : PreSignalBuild(ok)
    \/ \E t \in Tokens, e \in EntryPrices, a \in Amounts, pf \in BOOLEAN :
            RegAddPosition(t, e, a, 25, 50, pf, "")
    \/ \E t \in Tokens : RegRemovePosition(t)
    \/ \E d \in TimeSteps : Tick(d)

WarmSpec == Init /\ [][WarmNext]_vars

-----------------------------------------------------------------------------
(* Listener harness: the task RedisListener::subscribe spawns (redis/mod.rs), *)
(* the list it pops from, the channel it forwards on, and the main loop      *)
(* taking its signals from that channel.                                     *)

MaxPublished == 3        \* listener harness: payloads the upstream detector pushes

\* UTF-8 text is modelled by the byte widths of its characters
Ascii(n) == [i \in 1..n |-> 1]
Cjk(n) == [i \in 1..n |-> 3]

RECURSIVE ByteLen(_)
ByteLen(chars) == IF chars = << >> THEN 0 ELSE Head(chars) + ByteLen(Tail(chars))

\* str::is_char_boundary: the index is 0, the length, or the first byte of a character
is_char_boundary(chars, index) ==
    \E k \in 0..Len(chars) : ByteLen(SubSeq(chars, 1, k)) = index

\* &text[..n.min(text.len())], the bounded preview of a log line: slicing a str off a
\* character boundary panics
PreviewPanics(chars, n) ==
    ~is_char_boundary(chars, IF n < ByteLen(chars) THEN n ELSE ByteLen(chars))

WideMint == "TW"         \* a tokenMint written in three-byte characters

\* the bytes of a token mint: a base58 address, or six three-byte characters
MintText(t) == IF t = WideMint THEN Cjk(6) ELSE Ascii(44)

ListenSignal(t, signal_type, entry_price_usd) ==
    [token_mint |-> t, signal_type |-> signal_type, entry_price_usd |-> entry_price_usd,
     stop_loss_percent |-> 25, take_profit_percent |-> 50]

\* a payload on the list: JSON of a signal, or text that does not parse as one
JsonPayload(signal) ==
    [body |-> "signal", text |-> Ascii(40) \o MintText(signal.token_mint), signal |-> signal]

GarbagePayload(text) == [body |-> "garbage", text |-> text, signal |-> NoSignal]

Payloads ==
    {JsonPayload(ListenSignal(t, "ninja", e)) : t \in Tokens, e \in SignalPrices}
    \cup {JsonPayload(ListenSignal(t, "consensus", 100)) : t \in Tokens}
    \cup {JsonPayload(ListenSignal(WideMint, "ninja", 100))}
    \cup {GarbagePayload(Ascii(20)), GarbagePayload(Cjk(34))}

\* serde_json::from_str::<NinjaSignal>
from_str(payload) ==
    IF payload.body = "signal" THEN [ok |-> TRUE, signal |-> payload.signal]
    ELSE [ok |-> FALSE, signal |-> NoSignal]

listener_frame == << positions, last_call, prepared_tx_cache, now, ticks, main, pre, mon, shutdown_sent, trade_results, buys_done, sells_done, tx_uses, feed_vars >>

\* the upstream detector pushes a payload on the left of the list
Publish(payload) ==
    /\ published < MaxPublished
    /\ published' = published + 1
    /\ queue' = << payload >> \o queue
    /\ UNCHANGED << signal_rx, lis, rx_open >>
    /\ UNCHANGED listener_frame

\* the spawned task opens its client and connection; on an error it returns
ListenerConnect(ok) ==
    /\ lis.pc = "connect"
    /\ lis' = [pc |-> IF ok THEN "brpop" ELSE "returned"]
    /\ UNCHANGED << queue, published, signal_rx, rx_open >>
    /\ UNCHANGED listener_frame

\* ListenerHandle with the error of the send thrown away instead of leaving the loop
ListenerHandleIgnoringSendError(payload) ==
    LET parsed == from_str(payload)
    IN  IF parsed.ok
        THEN IF parsed.signal.signal_type = "ninja"
             THEN IF PreviewPanics(MintText(parsed.signal.token_mint), 16)
                  THEN /\ lis' = [pc |-> "panicked"]
                       /\ UNCHANGED signal_rx
                  ELSE IF rx_open
                  THEN /\ signal_rx' = Append(signal_rx, parsed.signal)
                       /\ UNCHANGED lis
                  ELSE UNCHANGED << signal_rx, lis >>
             ELSE UNCHANGED << signal_rx, lis >>
        ELSE IF PreviewPanics(payload.text, 100)
             THEN /\ lis' = [pc |-> "panicked"]
                  /\ UNCHANGED signal_rx
             ELSE UNCHANGED << signal_rx, lis >>

\* the task after a payload was popped: parse, test the tag, log, forward; the send
\* fails when the receiver has been dropped, and the task then leaves its loop
ListenerHandle(payload) ==
    LET parsed == from_str(payload)
    IN  IF parsed.ok
        THEN IF parsed.signal.signal_type = "ninja"
             THEN IF PreviewPanics(MintText(parsed.signal.token_mint), 16)
                  THEN /\ lis' = [pc |-> "panicked"]
                       /\ UNCHANGED signal_rx
                  ELSE IF rx_open
                  THEN /\ signal_rx' = Append(signal_rx, parsed.signal)
                       /\ UNCHANGED lis
                  ELSE /\ lis' = [pc |-> "stopped"]
                       /\ UNCHANGED signal_rx
             ELSE UNCHANGED << signal_rx, lis >>
        ELSE IF PreviewPanics(payload.text, 100)
             THEN /\ lis' = [pc |-> "panicked"]
                  /\ UNCHANGED signal_rx
             ELSE UNCHANGED << signal_rx, lis >>

\* one round of the loop: BRPOP with a 1 s timeout, and the match on its result
ListenerBrpop(outcome) ==
    /\ lis.pc = "brpop"
    /\ outcome = "message" => queue # << >>
    /\ outcome = "timeout" => queue = << >>
    /\ IF outcome = "message"
       THEN /\ queue' = SubSeq(queue, 1, Len(queue) - 1)
            /\ ListenerHandle(queue[Len(queue)])
       ELSE IF outcome = "timeout"
       THEN UNCHANGED << queue, signal_rx, lis >>
       ELSE /\ lis' = [pc |-> "sleep"]
            /\ UNCHANGED << queue, signal_rx >>
    /\ UNCHANGED << published, rx_open >>
    /\ UNCHANGED listener_frame

\* the 100 ms back-off after a BRPOP error is over
ListenerWake ==
    /\ lis.pc = "sleep"
    /\ lis' = [pc |-> "brpop"]
    /\ UNCHANGED << queue, published, signal_rx, rx_open >>
    /\ UNCHANGED listener_frame

\* main loop: signal_rx.recv() returns a signal; the log lines, then execute_buy
MainRecv ==
    /\ main.pc = "recv"
    /\ signal_rx # << >>
    /\ signal_rx' = Tail(signal_rx)
    /\ main' = IF PreviewPanics(MintText(Head(signal_rx).token_mint), 16)
               THEN [MainIdle(main.consumed + 1) EXCEPT !.pc = "panicked"]
               ELSE ExecuteBuyEntry(Head(signal_rx))
    /\ UNCHANGED << positions, last_call, prepared_tx_cache, now, ticks, pre, mon, shutdown_sent, trade_results, buys_done, sells_done, tx_uses, queue, published, lis, rx_open, feed_vars >>

\* main loop: signal_rx.recv() returns None once the listener task has ended and the
\* channel is drained; the loop ends and the shutdown broadcast is sent
MainChannelClosed ==
    /\ main.pc = "recv"
    /\ signal_rx = << >>
    /\ lis.pc \in {"returned", "panicked"}
    /\ main' = [main EXCEPT !.pc = "done"]
    /\ shutdown_sent' = TRUE
    /\ UNCHANGED << positions, last_call, prepared_tx_cache, now, ticks, pre, mon, trade_results, buys_done, sells_done, tx_uses, queue, published, signal_rx, lis, rx_open, feed_vars >>

ListenNext ==
    \/ \E payload \in Payloads : Publish(payload)
    \/ \E ok \in BOOLEAN : ListenerConnect(ok)
    \/ \E outcome \in {"message", "timeout", "error"} : ListenerBrpop(outcome)
    \/ ListenerWake
    \/ MainRecv
    \/ MainChannelClosed
    \/ PumpfunStart
    \/ \E ok \in BOOLEAN : PumpfunGetTx(ok, "timeout")
    \/ \E ok \in BOOLEAN : PumpfunRemoveAndSign(ok)
    \/ \E o \in Submissions : PumpfunSend(o)
    \/ PumpfunAdd
    \/ MainHandleResult

ListenSpec == Init /\ [][ListenNext]_vars

-----------------------------------------------------------------------------
(* Exit-result harness: execute_exit's match (main.rs) run over every Result   *)
(* execute_sell's signature can return for a failed sell.                      *)

SellErrorPrefixes == {"Sell quote failed", "Swap TX failed", "TX failed", "No position found"}

\* failed sells: Ok(TradeResult { success: false, error }) and Err(error)
FailedSellResults ==
    {create_error_result(Error(p, d), 1) : p \in SellErrorPrefixes, d \in Details}
    \cup {ErrReturn(Error(p, d)) : p \in SellErrorPrefixes, d \in Details}

\* execute_exit calls execute_sell for a token and gets its Result back (the monitor
\* calls execute_exit on a check_exit decision, which an unsellable Position never gets)
ExecuteSellReturns(t, result) ==
    /\ mon.pc = "select"
    /\ ~(has_position(positions, t) /\ positions[t].is_unsellable)
    /\ mon' = SellReturns([MonIdle(<< >>) EXCEPT !.token_mint = t], result)
    /\ UNCHANGED << positions, trade_results, sells_done >>
    /\ UNCHANGED mon_frame

ClassifyNext ==
    \/ \E t \in Tokens, pf \in BOOLEAN : RegAddPosition(t, 100, 200, 25, 50, pf, "")
    \/ \E t \in Tokens, result \in FailedSellResults : ExecuteSellReturns(t, result)
    \/ ExecuteExitHandle

ClassifySpec == Init /\ [][ClassifyNext]_vars

-----------------------------------------------------------------------------
(* Absent-position harness: the registry operations in any order, and        *)
(* execute_exit called for a token that has no Position.                     *)

\* execute_exit is called for a token whose Position is not in the registry
ExecuteExitAbsent(t) ==
    /\ mon.pc = "select"
    /\ ~has_position(positions, t)
    /\ mon' = ExecuteSellStart(positions, [MonIdle(<< >>) EXCEPT !.token_mint = t])
    /\ UNCHANGED << positions, trade_results, sells_done >>
    /\ UNCHANGED mon_frame

AbsentNext ==
    \/ RegNext
    \/ \E t \in Tokens : ExecuteExitAbsent(t)
    \/ ExecuteExitHandle

AbsentSpec == Init /\ [][AbsentNext]_vars

-----------------------------------------------------------------------------
(* Properties *)

Held(t) == buys_done[t] - sells_done[t]

\* C1  Single position per token: in every reachable state of the three tasks, for every
\* token, the buys that registered a Position minus the sells that removed it is 0 or 1,
\* and the registry holds a Position for the token (keyed by, and carrying, that token)
\* exactly when the difference is 1.
SinglePositionPerToken ==
    \A t \in Tokens :
        /\ Held(t) \in {0, 1}
        /\ (t \in DOMAIN positions) <=> (Held(t) = 1)
        /\ t \in DOMAIN positions => positions[t].token_mint = t

\* a token was bought, sold, and bought again
BoughtAgainAfterSell ==
    \E t \in Tokens : buys_done[t] = 2 /\ sells_done[t] = 1 /\ t \in DOMAIN positions

\* C2  When the main loop receives a signal for a token that already has a Position,
\* execute_buy returns at once the failure result 'Already have position' (attempt 1):
\* no buy step is entered, no transaction bytes exist, and the registry and the
\* Prepared-TX cache are unchanged.
AlreadyHavePositionRejected ==
    [][(/\ main.pc = "recv"
        /\ main'.pc \notin {"recv", "done"}
        /\ main'.signal.token_mint \in DOMAIN positions)
       => /\ main'.pc = "result"
          /\ main'.result = [kind |-> "Ok", success |-> FALSE,
                             error |-> [prefix |-> "Already have position", detail |-> ""],
                             attempt_number |-> 1]
          /\ main'.tx_bytes = NoBytes
          /\ positions' = positions
          /\ prepared_tx_cache' = prepared_tx_cache
          /\ buys_done' = buys_done]_vars

\* execute_buy has returned for a signal whose token has a Position it did not open
BuyRejectedForOpenPosition ==
    /\ main.pc = "result"
    /\ ~main.result.success
    /\ main.result.error.prefix = "Already have position"
    /\ main.signal.token_mint \in DOMAIN positions

\* C3  Every signal the main loop has consumed and finished with has had exactly one
\* Trade Result pushed on the results list, whether the buy succeeded or failed.
EverySignalPublishesOneResult ==
    main.pc = "recv" => trade_results.buy = main.consumed

\* C4  Every return of execute_buy carries a Trade Result, and every failure among them
\* has success = false and the error set.
EveryBuyFailureReturnsResult ==
    main.pc = "result" =>
        /\ main.result.kind = "Ok"
        /\ ~main.result.success => main.result.error # NoError

\* the monitor, at the top of its loop or inside a tick, starts a sell for token t
StartsSell(t) ==
    /\ mon.pc \in {"select", "tick"}
    /\ mon'.pc \in {"sell_pumpfun", "sell_jupiter", "exit_result"}
    /\ mon'.token_mint = t

\* C5  Unsellable is terminal: once a Position is unsellable, every step keeps the flag
\* set while the Position is in the registry, check_exit returns none for it at every
\* price, and no step of the monitor (price update or timer tick) starts a sell for it.
UnsellableIsTerminal ==
    [][\A t \in Tokens :
        (t \in DOMAIN positions /\ positions[t].is_unsellable)
        => /\ t \in DOMAIN positions' => positions'[t].is_unsellable
           /\ \A price \in Prices \cup RegPrices : check_exit(positions[t], price) = NoExit
           /\ ~StartsSell(t)]_vars

\* a timer tick is about to evaluate a Position that is unsellable
TickMeetsUnsellable ==
    /\ mon.pc = "tick"
    /\ Head(mon.tick_positions).is_unsellable
    /\ Head(mon.tick_positions).token_mint \in DOMAIN positions
    /\ positions[Head(mon.tick_positions).token_mint].is_unsellable

\* C6  When execute_exit counts a failed sell, increment_failed_sell adds exactly 1 to the
\* Position's counter, and sets is_unsellable and returns true exactly when the counter
\* reaches 3; a Position whose counter has reached 3 is unsellable, check_exit returns
\* none for it at every price at or below its stop-loss level, and no sell starts for it.
ThreeFailuresMakeUnsellable ==
    [][\A t \in DOMAIN positions :
        /\ (/\ mon.pc = "exit_result" /\ mon'.pc # "exit_result"
            /\ mon.token_mint = t /\ CountsAsFailedSell(mon.result))
           => /\ t \in DOMAIN positions'
              /\ positions'[t].failed_sell_attempts = positions[t].failed_sell_attempts + 1
              /\ positions'[t].is_unsellable <=> (positions'[t].failed_sell_attempts = 3)
              /\ increment_failed_sell_ret(positions, t)
                    <=> (positions'[t].failed_sell_attempts = 3)
        /\ positions[t].failed_sell_attempts >= 3
           => /\ positions[t].is_unsellable
              /\ \A price \in Prices :
                    price * 100 <= positions[t].stop_loss_price
                    => check_exit(positions[t], price) = NoExit
              /\ ~StartsSell(t)]_vars

\* three sells of a Position failed for want of a route, and a later tick holds it
UnsellableAfterThreeFailures ==
    \E t \in DOMAIN positions :
        /\ positions[t].failed_sell_attempts = 3
        /\ positions[t].is_unsellable
        /\ mon.pc = "tick"
        /\ \E price \in Prices : price * 100 <= positions[t].stop_loss_price

\* a step of the registry harness that calls op on a token whose Position it keeps
Calls(ops, t) ==
    /\ last_call'.n = last_call.n + 1
    /\ last_call'.op \in ops
    /\ last_call'.token = t
    /\ t \in DOMAIN positions
    /\ t \in DOMAIN positions'

\* C7  Monotone scaled stage: no operation on a Position that stays in the registry
\* lowers its scaled_exit_stage, and the stage stays within 0..3.
ScaledStageMonotone ==
    [][\A t \in Tokens :
        Calls({"increment_failed_sell", "mark_unsellable", "sync_entry_price",
               "update_high_price", "advance_scaled_exit", "update_tokens_after_sell"}, t)
        => /\ positions'[t].scaled_exit_stage >= positions[t].scaled_exit_stage
           /\ positions'[t].scaled_exit_stage \in 0..3]_vars

\* C8  Monotone remaining tokens: advance_scaled_exit and update_tokens_after_sell, with
\* any stage, sell percent and tokens_sold, never raise a Position's remaining amount and
\* leave its original amount alone; in every state the remaining amount is within
\* 0..original.
RemainingTokensMonotone ==
    [][/\ \A t \in Tokens :
            Calls({"advance_scaled_exit", "update_tokens_after_sell"}, t)
            => /\ positions'[t].amount_tokens <= positions[t].amount_tokens
               /\ positions'[t].original_amount_tokens = positions[t].original_amount_tokens
       /\ \A t \in DOMAIN positions' :
            /\ positions'[t].amount_tokens >= 0
            /\ positions'[t].amount_tokens <= positions'[t].original_amount_tokens]_vars

\* a sell of more tokens than remain has emptied a Position that had some
OversoldPositionIsEmpty ==
    \E t \in DOMAIN positions :
        /\ last_call.op \in {"advance_scaled_exit", "update_tokens_after_sell"}
        /\ last_call.token = t
        /\ positions[t].original_amount_tokens > 0
        /\ positions[t].amount_tokens = 0

\* C9  Sync once: sync_entry_price on an unsynced curve-venue Position sets the entry
\* price and the high-water mark to the real price, sets price_synced and returns true;
\* on a synced curve-venue Position, on an aggregator-venue Position and on a token
\* with no Position it returns false and changes nothing.
SyncOnce ==
    [][(last_call'.n = last_call.n + 1 /\ last_call'.op = "sync_entry_price")
       => LET t == last_call'.token
          IN  IF t \in DOMAIN positions /\ positions[t].is_pumpfun
                                        /\ ~positions[t].price_synced
              THEN /\ last_call'.ret = TRUE
                   /\ t \in DOMAIN positions'
                   /\ positions'[t].entry_price = last_call'.real_price
                   /\ positions'[t].high_price = last_call'.real_price
                   /\ positions'[t].price_synced
              ELSE /\ last_call'.ret = FALSE
                   /\ positions' = positions]_vars

\* a second sync, with a price other than the synced entry price, was refused
SecondSyncRefused ==
    /\ last_call.op = "sync_entry_price"
    /\ last_call.ret = FALSE
    /\ last_call.token \in DOMAIN positions
    /\ positions[last_call.token].is_pumpfun
    /\ positions[last_call.token].price_synced
    /\ positions[last_call.token].entry_price # last_call.real_price

PreparedTxFresh ==
    /\ main.prepared_tx.some
       => main.read_at - main.prepared_tx.created_at < 60
    /\ main.tx_bytes.src = "prepared"
       => /\ main.prepared_tx.some
          /\ main.tx_bytes = main.prepared_tx.tx_bytes
          /\ main.pc \in {"pumpfun_sign", "pumpfun_send", "pumpfun_add"}

\* get met an entry of age 60 s or more, returned nothing, and the attempt has fresh bytes
StaleEntryNotReturned ==
    /\ main.pc = "pumpfun_sign"
    /\ ~main.prepared_tx.some
    /\ main.tx_bytes.src = "fresh"
    /\ main.signal.token_mint \in DOMAIN prepared_tx_cache
    /\ main.read_at - prepared_tx_cache[main.signal.token_mint].created_at >= 60

\* the cache holds, under the token of the signal, the entry execute_buy_pumpfun read
ReadEntryInCache(cache) ==
    /\ main.signal.token_mint \in DOMAIN cache
    /\ cache[main.signal.token_mint].tx_bytes = main.prepared_tx.tx_bytes

\* C12  Fast-confirm single use: a non-expired Prepared-TX of the signal's token is read
\* by the buy; attempt 1 then takes the cached bytes and attempt 2 never does (it asks the
\* venue for a fresh transaction); the entry that was read is out of the cache once
\* attempt 1 has signed and when attempt 2 starts, whether attempt 1 succeeded or not; and
\* no prepared bytes are taken by more than one attempt, of this signal or of any other.
FastConfirmSingleUse ==
    [][/\ (/\ main.pc = "pumpfun_start" /\ main'.pc = "pumpfun_tx"
           /\ main.signal.token_mint \in DOMAIN prepared_tx_cache
           /\ now - prepared_tx_cache[main.signal.token_mint].created_at < 60)
          => /\ main'.prepared_tx.some
             /\ main'.prepared_tx.tx_bytes = prepared_tx_cache[main.signal.token_mint].tx_bytes
       /\ (main.pc = "pumpfun_tx" /\ main' # main /\ main.prepared_tx.some)
          => IF main.attempt = 1
             THEN main'.pc = "pumpfun_sign" /\ main'.tx_bytes = main.prepared_tx.tx_bytes
             ELSE /\ main'.tx_bytes.src # "prepared"
                  /\ main'.pc = "pumpfun_sign"
                     => main'.tx_bytes = [src |-> "fresh", id |-> main.consumed, attempt |-> 2]
       /\ (main.prepared_tx.some /\ main.attempt = 1 /\ main'.attempt = 2)
          => ~ReadEntryInCache(prepared_tx_cache')
       /\ (main.prepared_tx.some /\ main.pc \in {"pumpfun_send", "pumpfun_add"})
          => ~ReadEntryInCache(prepared_tx_cache)
       /\ \A id \in DOMAIN tx_uses : tx_uses'[id] <= 1]_vars

\* attempt 1 took the prepared bytes and failed; attempt 2 is signing fresh bytes
SecondAttemptAfterPreparedIsFresh ==
    /\ main.pc = "pumpfun_sign"
    /\ main.attempt = 2
    /\ main.prepared_tx.some
    /\ main.tx_bytes.src = "fresh"
    /\ tx_uses[main.prepared_tx.tx_bytes.id] = 1
    /\ main.signal.token_mint \notin DOMAIN prepared_tx_cache

\* C13  Prepared-TX eviction on access: when execute_buy_pumpfun calls get for a token
\* whose cache entry has reached the 60 s TTL, the entry is no longer in the cache after
\* the call.
ExpiredEntryPurgedOnGet ==
    [][(/\ main.pc = "pumpfun_start" /\ main'.pc = "pumpfun_tx"
        /\ main.signal.token_mint \in DOMAIN prepared_tx_cache
        /\ now - prepared_tx_cache[main.signal.token_mint].created_at >= 60)
       => main.signal.token_mint \notin DOMAIN prepared_tx_cache']_vars

\* a Position the standard exit rules apply to: not of class ninja, sellable, and not
\* waiting for its entry price to be synced
StandardSellableSynced(p) ==
    /\ p.signal_type # "ninja"
    /\ ~p.is_unsellable
    /\ p.is_pumpfun => p.price_synced

\* C14  Exit decision of a standard Position: for every Position in the registry that is
\* not ninja, is sellable and synced, and for every price, check_exit returns StopLoss
\* when price <= stop_loss_price (also when the take-profit test holds too), otherwise
\* TakeProfit when price >= take_profit_price, otherwise none.
StandardExitDecision ==
    \A t \in DOMAIN positions, price \in RegPrices \cup Prices :
        StandardSellableSynced(positions[t])
        => check_exit(positions[t], price) =
              IF price * 100 <= positions[t].stop_loss_price THEN [kind |-> "StopLoss"]
              ELSE IF price * 100 >= positions[t].take_profit_price THEN [kind |-> "TakeProfit"]
              ELSE [kind |-> "None"]

\* a standard Position and a price at which both level tests hold: stop-loss is returned
StopLossWinsOverTakeProfit ==
    \E t \in DOMAIN positions, price \in RegPrices :
        /\ StandardSellableSynced(positions[t])
        /\ price * 100 <= positions[t].stop_loss_price
        /\ price * 100 >= positions[t].take_profit_price
        /\ check_exit(positions[t], price) = StopLoss

\* a Position the scaled exit rules apply to: of class ninja, sellable, and not waiting
\* for its entry price to be synced
NinjaSellableSynced(p) ==
    /\ p.signal_type = "ninja"
    /\ ~p.is_unsellable
    /\ p.is_pumpfun => p.price_synced

NinjaBuyRegistersNinjaPosition ==
    (/\ main.pc = "result"
     /\ main.result.success
     /\ main.signal.signal_type = "ninja"
     /\ main.signal.token_mint \in DOMAIN positions)
    => positions[main.signal.token_mint].signal_type = "ninja"

SellRemovesOnlyOnFullExit ==
    [][\A t \in DOMAIN positions :
        (/\ mon.pc \in {"sell_pumpfun", "sell_jupiter"}
         /\ mon.token_mint = t
         /\ mon'.pc = "exit_result"
         /\ mon'.result.success)
        => LET remaining == positions[t].amount_tokens
               partial == /\ mon.exit_reason.kind = "ScaledTakeProfit"
                          /\ remaining - (remaining * mon.exit_reason.sell_percent) \div 100 > 0
           IN  IF partial
               THEN /\ t \in DOMAIN positions'
                    /\ positions'[t].amount_tokens =
                          remaining - (remaining * mon.exit_reason.sell_percent) \div 100
                    /\ positions'[t].scaled_exit_stage = mon.exit_reason.stage
               ELSE t \notin DOMAIN positions']_vars

\* C19  No double advance: when the monitor issues the sell of a scaled take-profit, the
\* stage of that exit is already committed on the Position in the registry, so that a
\* later price at or above the same threshold finds the stage advanced.
StageCommitsBeforeSell ==
    [][\A t \in Tokens :
        (StartsSell(t) /\ mon'.exit_reason.kind = "ScaledTakeProfit")
        => /\ t \in DOMAIN positions'
           /\ positions'[t].scaled_exit_stage = mon'.exit_reason.stage]_vars

\* C20  Venue routing: a signal that execute_buy does not reject goes to the direct-curve
\* venue exactly when its class is ninja (in either case), and to the aggregator venue
\* otherwise; a
\* Position enters the registry with the venue flag of the venue that bought it; the flag
\* of a Position in the registry never changes; and a sell starts, and runs, on the
\* direct-curve venue exactly when the flag of the Position it sells is set.
VenueRouting ==
    [][/\ (main.pc = "recv" /\ main'.pc \in {"pumpfun_start", "jupiter_quote"})
          => (main'.pc = "pumpfun_start" <=> main'.signal.signal_type \in {"ninja", "NINJA"})
       /\ \A t \in Tokens :
            /\ (t \notin DOMAIN positions /\ t \in DOMAIN positions')
               => /\ main.pc \in {"pumpfun_add", "jupiter_add"}
                  /\ positions'[t].is_pumpfun <=> main.pc = "pumpfun_add"
                  /\ positions'[t].is_pumpfun <=> main.signal.signal_type \in {"ninja", "NINJA"}
            /\ (t \in DOMAIN positions /\ t \in DOMAIN positions')
               => positions'[t].is_pumpfun = positions[t].is_pumpfun
            /\ (mon'.pc \in {"sell_pumpfun", "sell_jupiter"} /\ mon'.token_mint = t)
               => /\ t \in DOMAIN positions'
                  /\ mon'.pc = "sell_pumpfun" <=> positions'[t].is_pumpfun]_vars

\* a Position bought on the direct-curve venue is being sold there, on a second attempt
CurvePositionSoldOnCurve ==
    /\ mon.pc = "sell_pumpfun"
    /\ mon.attempt = 2
    /\ mon.token_mint \in DOMAIN positions
    /\ positions[mon.token_mint].is_pumpfun
    /\ buys_done[mon.token_mint] >= 1

RegisteredPositionState ==
    [][\A t \in Tokens :
        (t \notin DOMAIN positions /\ t \in DOMAIN positions')
        => /\ main.pc = "pumpfun_add"
              => /\ positions'[t].is_pumpfun
                 /\ ~positions'[t].price_synced
           /\ main.pc = "jupiter_add"
              => /\ ~positions'[t].is_pumpfun
                 /\ positions'[t].price_synced
                 /\ main.out_amount > 0
                    => positions'[t].entry_price = trade_amount_sol \div main.out_amount]_vars

PreSyncGrace ==
    [][\A t \in Tokens :
        /\ (/\ mon.pc = "select"
            /\ t \in DOMAIN positions /\ t \in DOMAIN positions'
            /\ positions[t].is_pumpfun /\ ~positions[t].price_synced
            /\ positions'[t] # positions[t])
           => /\ positions'[t].price_synced
              /\ positions'[t].entry_price \in Prices
              /\ positions'[t].high_price = positions'[t].entry_price
              /\ positions'[t].stop_loss_price =
                    positions'[t].entry_price * (100 - positions[t].stop_loss_percent)
              /\ positions'[t].take_profit_price =
                    positions'[t].entry_price * (100 + positions[t].take_profit_percent)
              /\ mon' = mon
        /\ StartsSell(t)
           => ~(t \in DOMAIN positions /\ positions[t].is_pumpfun /\ ~positions[t].price_synced)]_vars

\* a curve-venue Position entered at 100 was synced by an update of 60, 40% lower, which
\* is below the provisional stop-loss level: it is still held and no sell has started
SyncedBelowProvisionalStopLoss ==
    \E t \in DOMAIN positions :
        /\ positions[t].is_pumpfun
        /\ positions[t].price_synced
        /\ positions[t].amount_tokens = (trade_amount_sol * 200) \div 100
        /\ positions[t].entry_price = 60
        /\ positions[t].high_price = 60
        /\ mon.pc = "select"
        /\ sells_done[t] = 0

\* C26  Once 3 s have passed since its entry time, a sellable curve-venue Position that is
\* still unsynced is evaluated like any other: check_exit returns StopLoss at or below
\* its stop-loss level, otherwise TakeProfit at or above its take-profit level.
UnsyncedEvaluatedAfterWait ==
    \A t \in DOMAIN positions, price \in Prices :
        (/\ positions[t].is_pumpfun
         /\ ~positions[t].price_synced
         /\ ~positions[t].is_unsellable
         /\ positions[t].signal_type # "ninja"
         /\ now - positions[t].entry_time >= 3)
        => check_exit(positions[t], price) =
              IF price * 100 <= positions[t].stop_loss_price THEN [kind |-> "StopLoss"]
              ELSE IF price * 100 >= positions[t].take_profit_price THEN [kind |-> "TakeProfit"]
              ELSE [kind |-> "None"]

\* C27  The timer-tick path does what the price-update path does: a tick step that handles
\* a Position with a price leaves the registry as the price-update path would for some
\* reported price: the entry-price sync for a curve-venue Position that needs it and no
\* sell, otherwise the high-water update and a sell exactly when check_exit asks for one.
TickPathSameAsPricePath ==
    [][(mon.pc = "tick" /\ positions' # positions)
       => LET t == Head(mon.tick_positions).token_mint
          IN  \E price \in Prices :
                IF needs_price_sync(positions[t])
                THEN /\ positions' = sync_entry_price(positions, t, price)
                     /\ mon'.pc \in {"tick", "select"}
                ELSE /\ positions' = update_high_price(positions, t, price)
                     /\ mon'.pc \in {"sell_pumpfun", "sell_jupiter"}
                        <=> check_exit(positions'[t], price) # NoExit]_vars

\* C28  Sell retry and slippage escalation: a direct-curve sell is in attempt 1..3 with a
\* slippage of slippage_bps / 100 + (attempt - 1) * 5 percent, an aggregator sell in
\* attempt 1..5 with a slippage of slippage_bps + 500 + (attempt - 1) * 200 bps.  A step of
\* either sell is one of: a retry, only below the last attempt, with the attempt number one
\* higher and the slippage strictly higher; a return with a success result carrying the
\* attempt number, the Position removed; or a return after the last attempt with a
\* failure result that has its error set, the Position kept.
SellRetryAndSlippage ==
    [][(mon.pc \in {"sell_pumpfun", "sell_jupiter"} /\ mon' # mon)
       => LET max_attempts == IF mon.pc = "sell_pumpfun" THEN 3 ELSE 5
          IN  /\ mon.attempt \in 1..max_attempts
              /\ mon.slippage = IF mon.pc = "sell_pumpfun"
                                THEN (slippage_bps \div 100) + (mon.attempt - 1) * 5
                                ELSE slippage_bps + 500 + (mon.attempt - 1) * 200
              /\ \/ /\ mon'.pc = mon.pc
                    /\ mon.attempt < max_attempts
                    /\ mon'.attempt = mon.attempt + 1
                    /\ mon'.slippage > mon.slippage
                    /\ positions' = positions
                 \/ /\ mon'.pc = "exit_result"
                    /\ mon'.result = SuccessResult(mon.attempt)
                    /\ mon.token_mint \notin DOMAIN positions'
                    /\ sells_done'[mon.token_mint] = sells_done[mon.token_mint] + 1
                 \/ /\ mon'.pc = "exit_result"
                    /\ mon.attempt = max_attempts
                    /\ mon'.result.kind = "Ok"
                    /\ ~mon'.result.success
                    /\ mon'.result.error # NoError
                    /\ mon'.result.attempt_number = max_attempts
                    /\ positions' = positions]_vars

\* an aggregator sell has returned a failure result after its fifth attempt
AggregatorSellFailedAfterFiveAttempts ==
    /\ mon.pc = "exit_result"
    /\ mon.token_mint \in DOMAIN positions
    /\ ~positions[mon.token_mint].is_pumpfun
    /\ ~mon.result.success
    /\ mon.result.attempt_number = 5
    /\ mon.result.error # NoError

\* C29  Signal delivery: every step in which the listener pops a well-formed payload that
\* carries the expected tag appends that payload's signal, once, to the channel and the
\* listener stays in its loop; the channel changes in no other way than by such an append
\* or by the main loop, waiting at recv, taking the signal at its head; and the main loop
\* takes up a signal only when it is at recv, the buy for the signal before being over.
SignalDeliveredOnceInOrder ==
    [][/\ (/\ lis.pc = "brpop"
           /\ Len(queue') < Len(queue)
           /\ from_str(queue[Len(queue)]).ok
           /\ from_str(queue[Len(queue)]).signal.signal_type = "ninja")
          => /\ signal_rx' = Append(signal_rx, from_str(queue[Len(queue)]).signal)
             /\ lis' = lis
       /\ signal_rx' # signal_rx
          => \/ /\ lis.pc = "brpop"
                /\ Len(queue') < Len(queue)
                /\ signal_rx' = Append(signal_rx, from_str(queue[Len(queue)]).signal)
                /\ main' = main
             \/ /\ main.pc = "recv"
                /\ signal_rx # << >>
                /\ signal_rx' = Tail(signal_rx)
                /\ main'.signal = Head(signal_rx)
       /\ (main'.signal # main.signal /\ main'.signal # NoSignal) => main.pc = "recv"]_vars

\* C30  The listener is never stopped by bad input or transport trouble: a step in which
\* it pops a payload that does not parse, or one whose signal_type is not the expected
\* tag, forwards nothing and leaves it in its loop, ready for the next pop; a transport
\* error on the pop takes nothing from the list and sends it to its back-off, from which
\* its next step is back to the pop.
ListenerSurvivesBadInput ==
    [][/\ (/\ lis.pc = "brpop"
           /\ Len(queue') < Len(queue)
           /\ \/ ~from_str(queue[Len(queue)]).ok
              \/ from_str(queue[Len(queue)]).signal.signal_type # "ninja")
          => /\ lis'.pc = "brpop"
             /\ signal_rx' = signal_rx
       /\ (lis.pc = "brpop" /\ lis'.pc = "sleep") => queue' = queue /\ signal_rx' = signal_rx
       /\ (lis.pc = "sleep" /\ lis' # lis) => lis'.pc = "brpop"]_vars

\* C31  Shutdown: once the shutdown broadcast has been sent, no step of the monitor starts
\* a sell, and the step the monitor takes from select! is the one that leaves its loop.
MonitorStopsAtShutdown ==
    [][shutdown_sent
       => /\ \A t \in Tokens : ~StartsSell(t)
          /\ (mon.pc = "select" /\ mon' # mon) => mon'.pc = "stopped"]_vars

\* the steps the monitor task takes once it has left select!
MonitorSteps ==
    \/ \E ok \in BOOLEAN, p \in Prices : MonTickPosition(ok, p)
    \/ \E o \in PumpfunSellOutcomes, d \in Details : SellPumpfunAttempt(o, d)
    \/ \E o \in JupiterSellOutcomes, d \in Details : SellJupiterAttempt(o, d)
    \/ ExecuteExitHandle

\* the program with a fair monitor: a task that can run does run, and select!, which
\* picks among its ready branches at random, does not pass over the shutdown branch for ever
FairSpec == Spec /\ WF_vars(MonitorSteps) /\ SF_vars(MonShutdown)

\* under FairSpec the monitor stops some time after the shutdown broadcast
MonitorEventuallyStops == shutdown_sent ~> (mon.pc = "stopped")

NoPreparedTxBehindPosition ==
    \A t \in DOMAIN positions : t \notin DOMAIN prepared_tx_cache

\* C37  A failed sell leaves the Position as it was: no attempt of a sell changes the
\* registry unless it succeeds, and when execute_exit has handled a sell that failed on
\* all its attempts the Position is still registered with the same remaining and original
\* tokens, entry price, stop-loss and take-profit levels and scaled stage; unless it has
\* become unsellable, check_exit decides on it at every price as it did before, so the
\* same exit condition starts a new sell.
FailedSellKeepsPosition ==
    [][/\ (mon.pc \in {"sell_pumpfun", "sell_jupiter"} /\ mon' # mon
           /\ ~(mon'.pc = "exit_result" /\ mon'.result.success))
          => positions' = positions
       /\ (mon.pc = "exit_result" /\ mon' # mon /\ ~mon.result.success
           /\ mon.token_mint \in DOMAIN positions)
          => LET p == positions[mon.token_mint]
             IN  /\ mon.token_mint \in DOMAIN positions'
                 /\ LET q == positions'[mon.token_mint]
                    IN  /\ q.amount_tokens = p.amount_tokens
                        /\ q.original_amount_tokens = p.original_amount_tokens
                        /\ q.entry_price = p.entry_price
                        /\ q.stop_loss_price = p.stop_loss_price
                        /\ q.take_profit_price = p.take_profit_price
                        /\ q.scaled_exit_stage = p.scaled_exit_stage
                        /\ ~q.is_unsellable
                           => \A price \in Prices : check_exit(q, price) = check_exit(p, price)]_vars

\* a new sell is under way for a Position that already has one counted failed sell
SellStartedAgainAfterFailure ==
    /\ mon.pc \in {"sell_pumpfun", "sell_jupiter"}
    /\ mon.attempt = 1
    /\ mon.token_mint \in DOMAIN positions
    /\ positions[mon.token_mint].failed_sell_attempts = 1
    /\ positions[mon.token_mint].amount_tokens = 200
    /\ sells_done[mon.token_mint] = 0

\* C38  Operations on a token without a Position: execute_sell returns the error
\* "No position found" at once, with no attempt on either venue, and the registry, the
\* sell count and the published results stay as they were; increment_failed_sell,
\* mark_unsellable, sync_entry_price, update_high_price, advance_scaled_exit and
\* update_tokens_after_sell leave the registry as it was and return false or none.
AbsentPositionNoOp ==
    [][/\ (mon.pc = "select" /\ mon'.pc # "select" /\ mon'.token_mint \notin DOMAIN positions)
          => /\ mon'.pc = "exit_result"
             /\ mon'.result = ErrReturn(Error("No position found", ""))
             /\ positions' = positions
             /\ sells_done' = sells_done
             /\ trade_results' = trade_results
       /\ (/\ last_call'.n # last_call.n
           /\ last_call'.token \notin DOMAIN positions
           /\ last_call'.op \in {"increment_failed_sell", "mark_unsellable", "sync_entry_price",
                                 "update_high_price", "advance_scaled_exit",
                                 "update_tokens_after_sell"})
          => /\ positions' = positions
             /\ last_call'.op \in {"increment_failed_sell", "sync_entry_price"}
                => last_call'.ret = FALSE
             /\ last_call'.op \notin {"increment_failed_sell", "sync_entry_price"}
                => last_call'.ret = NoReturn]_vars

\* execute_sell has returned its error for a token without a Position, after
\* increment_failed_sell was called for that token and returned false
SellRefusedWithoutPosition ==
    /\ mon.pc = "exit_result"
    /\ mon.result = ErrReturn(Error("No position found", ""))
    /\ mon.token_mint \notin DOMAIN positions
    /\ last_call.op = "increment_failed_sell"
    /\ last_call.token = mon.token_mint
    /\ last_call.ret = FALSE

\* C39  Sells one at a time: the monitor starts a sell only when it has none in flight;
\* while a sell is in flight the registry holds, under the sold token, exactly the Position
\* whose snapshot is being sold, and no step registers a Position; the successful attempt
\* removes that Position and nothing else.
SellsOneAtATime ==
    [][/\ (mon'.pc \in {"sell_pumpfun", "sell_jupiter"} /\ mon'.attempt = 1 /\ mon' # mon)
          => /\ mon.pc \in {"select", "tick"}
             /\ mon.position = NoPosition
       /\ mon.pc \in {"sell_pumpfun", "sell_jupiter"}
          => /\ mon.token_mint \in DOMAIN positions
             /\ positions[mon.token_mint] = mon.position
             /\ buys_done' = buys_done
             /\ \/ positions' = positions
                \/ /\ mon'.pc = "exit_result"
                   /\ mon'.result.success
                   /\ positions' = remove_position(positions, mon.token_mint)]_vars

\* a signal for the token arrived while its sell was in flight and the buy was refused
BuyRefusedDuringSell ==
    /\ mon.pc \in {"sell_pumpfun", "sell_jupiter"}
    /\ main.pc = "result"
    /\ main.signal.token_mint = mon.token_mint
    /\ main.result.error = Error("Already have position", "")

\* ---------------------------------------------------------------------------
\* The listener when the receiving side of the signal channel is gone
\* ---------------------------------------------------------------------------

\* the receiver of the signal channel is dropped; the signals still in the channel go
\* with it
DropReceiver ==
    /\ rx_open
    /\ rx_open' = FALSE
    /\ signal_rx' = << >>
    /\ UNCHANGED << queue, published, lis >>
    /\ UNCHANGED listener_frame

DropNext ==
    \/ \E payload \in Payloads : Publish(payload)
    \/ \E ok \in BOOLEAN : ListenerConnect(ok)
    \/ \E outcome \in {"message", "timeout", "error"} : ListenerBrpop(outcome)
    \/ ListenerWake
    \/ DropReceiver

DropSpec == Init /\ [][DropNext]_vars

\* the payload at the consuming end of the queue is a signal the task would forward
NextIsForwardable ==
    /\ queue # << >>
    /\ from_str(queue[Len(queue)]).ok
    /\ from_str(queue[Len(queue)]).signal.signal_type = "ninja"
    /\ ~PreviewPanics(MintText(from_str(queue[Len(queue)]).signal.token_mint), 16)

\* C35: once the receiver of the signal channel is dropped, the listener task stops at
\* the next signal it tries to forward: that pop ends the task, nothing is put in the
\* channel, a stopped task pops nothing further and never runs again, the task stops
\* for no other reason, and the step changes nothing of the rest of the process.
ListenerStopsOnDroppedReceiver ==
    [][/\ (~rx_open /\ lis.pc = "brpop" /\ NextIsForwardable /\ Len(queue') < Len(queue))
            => /\ lis'.pc = "stopped"
               /\ signal_rx' = signal_rx
               /\ UNCHANGED listener_frame
       /\ lis.pc = "stopped"
            => /\ lis' = lis
               /\ Len(queue') >= Len(queue)
               /\ signal_rx' = signal_rx
       /\ (lis.pc # "stopped" /\ lis'.pc = "stopped")
            => /\ ~rx_open
               /\ lis.pc = "brpop"
               /\ NextIsForwardable
               /\ Len(queue') < Len(queue)]_vars

\* the task has stopped on a dropped receiver and payloads published since are left in
\* the queue
ListenerStoppedWithQueueLeft ==
    /\ lis.pc = "stopped"
    /\ ~rx_open
    /\ queue # << >>
    /\ published = MaxPublished

\* ---------------------------------------------------------------------------
\* The price feed (pumpportal/mod.rs): subscribe_token, ws_handler, get_price
\* ---------------------------------------------------------------------------

MaxSubscribes == 3
MaxEvents == 3
MaxDrops == 2

\* the SOL price start() stores; the default of new()
sol_price_usd == 200

\* the cap of the reconnect delay, in seconds
MAX_RECONNECT_DELAY == 60

\* Option::None of an optional f64 field of a TradeEvent
NoneF == -1

Elements(seq) == {seq[i] : i \in DOMAIN seq}

Min2(a, b) == IF a < b THEN a ELSE b

\* the optional amounts a trade event can carry: reserves that give 100, zero token
\* reserves with trade amounts that give 160, and an event with none of the fields
TradeShapes ==
    { [virtual_sol_reserves |-> 30, virtual_token_reserves |-> 60, sol_amount |-> NoneF, token_amount |-> NoneF],
      [virtual_sol_reserves |-> 30, virtual_token_reserves |-> 0, sol_amount |-> 8, token_amount |-> 10],
      [virtual_sol_reserves |-> NoneF, virtual_token_reserves |-> NoneF, sol_amount |-> NoneF, token_amount |-> NoneF] }

TradeEvent(mint, shape) == [mint |-> mint, virtual_sol_reserves |-> shape.virtual_sol_reserves, virtual_token_reserves |-> shape.virtual_token_reserves, sol_amount |-> shape.sol_amount, token_amount |-> shape.token_amount]

NoPriceUpdate == [some |-> FALSE, token_mint |-> "", price_usd |-> 0]

\* calculate_price: from the virtual reserves when the token reserves are positive,
\* else from the trade amounts when the token amount is positive, else None (the
\* quotient times the SOL price, over amounts chosen so that the division is exact)
calculate_price(trade) ==
    IF /\ trade.virtual_sol_reserves # NoneF
       /\ trade.virtual_token_reserves # NoneF
       /\ trade.virtual_token_reserves > 0
    THEN [some |-> TRUE, token_mint |-> trade.mint, price_usd |-> (trade.virtual_sol_reserves * sol_price_usd) \div trade.virtual_token_reserves]
    ELSE IF /\ trade.sol_amount # NoneF
            /\ trade.token_amount # NoneF
            /\ trade.token_amount > 0
    THEN [some |-> TRUE, token_mint |-> trade.mint, price_usd |-> (trade.sol_amount * sol_price_usd) \div trade.token_amount]
    ELSE NoPriceUpdate

\* get_price: the cached price of the mint, if any
get_price(m, t) == IF t \in DOMAIN m THEN [some |-> TRUE, price |-> m[t]] ELSE [some |-> FALSE, price |-> 0]

feed_frame == << positions, last_call, prepared_tx_cache, now, ticks, main, pre, mon, shutdown_sent, trade_results, buys_done, sells_done, tx_uses, listener_vars >>

\* subscribe_token: the mint goes into the channel to the handler
SubscribeToken(t) ==
    /\ feed_log.calls < MaxSubscribes
    /\ subscribe_rx' = Append(subscribe_rx, t)
    /\ feed_log' = [feed_log EXCEPT !.requested = @ \cup {t}, !.calls = @ + 1]
    /\ UNCHANGED << ws, conn, prices, price_rx >>
    /\ UNCHANGED feed_frame

\* a connect that sends no re-subscribe message
ResubscribedNothing(tokens, sent_ok) == [NoConnection EXCEPT !.state = IF sent_ok THEN "up" ELSE "broken"]

\* the connection after a successful connect_async and the re-subscribe message: one
\* message with every subscribed token when there is any; its send error is thrown away
Resubscribed(tokens, sent_ok) ==
    IF tokens = << >>
    THEN [NoConnection EXCEPT !.state = "up"]
    ELSE [state |-> IF sent_ok THEN "up" ELSE "broken", subs |-> IF sent_ok THEN Elements(tokens) ELSE {}, sent |-> [t \in FeedTokens |-> IF t \in Elements(tokens) THEN 1 ELSE 0]]

\* ws_handler, outer loop: connect_async; on success the delay is reset to 1 s and the
\* subscribed tokens are re-subscribed, on failure the handler goes to its back-off
WsConnect(ok, sent_ok) ==
    /\ ws.pc = "connect"
    /\ (~ok \/ ws.subscribed_tokens = << >>) => sent_ok
    /\ ~sent_ok => feed_log.drops < MaxDrops
    /\ IF ok
       THEN /\ ws' = [ws EXCEPT !.pc = "loop", !.reconnect_delay = 1]
            /\ conn' = Resubscribed(ws.subscribed_tokens, sent_ok)
       ELSE /\ ws' = [ws EXCEPT !.pc = "sleep"]
            /\ conn' = NoConnection
    /\ feed_log' = [feed_log EXCEPT !.drops = IF sent_ok THEN @ ELSE @ + 1]
    /\ UNCHANGED << subscribe_rx, prices, price_rx >>
    /\ UNCHANGED feed_frame

\* the select branch on subscribe_rx with the test for a known token left out
WsSubscribeRecvAlways(send_err) ==
    /\ ws.pc = "loop"
    /\ subscribe_rx # << >>
    /\ send_err => conn.state = "broken"
    /\ subscribe_rx' = Tail(subscribe_rx)
    /\ ws' = [ws EXCEPT !.subscribed_tokens = Append(@, Head(subscribe_rx)), !.pc = IF send_err THEN "sleep" ELSE "loop"]
    /\ conn' = IF send_err THEN NoConnection
               ELSE [conn EXCEPT !.sent[Head(subscribe_rx)] = @ + 1, !.subs = IF conn.state = "up" THEN @ \cup {Head(subscribe_rx)} ELSE @]
    /\ UNCHANGED << prices, price_rx, feed_log >>
    /\ UNCHANGED feed_frame

\* ws_handler, select branch on subscribe_rx: a token not yet subscribed is pushed and
\* one subscribe message is written; the write fails only on a broken connection, and
\* then the handler leaves the inner loop (the token is already pushed)
WsSubscribeRecv(send_err) ==
    /\ ws.pc = "loop"
    /\ subscribe_rx # << >>
    /\ send_err => (conn.state = "broken" /\ Head(subscribe_rx) \notin Elements(ws.subscribed_tokens))
    /\ subscribe_rx' = Tail(subscribe_rx)
    /\ IF Head(subscribe_rx) \in Elements(ws.subscribed_tokens)
       THEN UNCHANGED << ws, conn >>
       ELSE /\ ws' = [ws EXCEPT !.subscribed_tokens = Append(@, Head(subscribe_rx)), !.pc = IF send_err THEN "sleep" ELSE "loop"]
            /\ conn' = IF send_err THEN NoConnection
                       ELSE [conn EXCEPT !.sent[Head(subscribe_rx)] = @ + 1, !.subs = IF conn.state = "up" THEN @ \cup {Head(subscribe_rx)} ELSE @]
    /\ UNCHANGED << prices, price_rx, feed_log >>
    /\ UNCHANGED feed_frame

\* the connection is lost without a close frame; the server's subscriptions go with it
ConnBreak ==
    /\ conn.state = "up"
    /\ feed_log.drops < MaxDrops
    /\ conn' = [conn EXCEPT !.state = "broken", !.subs = {}]
    /\ feed_log' = [feed_log EXCEPT !.drops = @ + 1]
    /\ UNCHANGED << subscribe_rx, ws, prices, price_rx >>
    /\ UNCHANGED feed_frame

\* ws_handler, select branch on read.next(), a text frame that parses as a TradeEvent:
\* a computed price goes into the cache and into the channel to the monitor
WsReadTrade(trade) ==
    /\ ws.pc = "loop"
    /\ conn.state = "up"
    /\ trade.mint \in conn.subs
    /\ feed_log.events < MaxEvents
    /\ IF calculate_price(trade).some
       THEN /\ prices' = MapInsert(prices, calculate_price(trade).token_mint, calculate_price(trade).price_usd)
            /\ price_rx' = Append(price_rx, calculate_price(trade))
       ELSE UNCHANGED << prices, price_rx >>
    /\ feed_log' = [feed_log EXCEPT !.events = @ + 1, !.last_event = MapInsert(@, trade.mint, calculate_price(trade)), !.last_priced = IF calculate_price(trade).some THEN MapInsert(@, trade.mint, calculate_price(trade).price_usd) ELSE @]
    /\ UNCHANGED << subscribe_rx, ws, conn >>
    /\ UNCHANGED feed_frame

\* ws_handler, select branch on read.next(), a close frame of the server or a read
\* error on a broken connection: the handler leaves the inner loop
WsReadEnd(kind) ==
    /\ ws.pc = "loop"
    /\ kind = "close" => (conn.state = "up" /\ feed_log.drops < MaxDrops)
    /\ kind = "error" => conn.state = "broken"
    /\ ws' = [ws EXCEPT !.pc = "sleep"]
    /\ conn' = NoConnection
    /\ feed_log' = [feed_log EXCEPT !.drops = IF kind = "close" THEN @ + 1 ELSE @]
    /\ UNCHANGED << subscribe_rx, prices, price_rx >>
    /\ UNCHANGED feed_frame

\* the back-off is over: the handler slept reconnect_delay seconds, then doubles it up
\* to the cap and connects again
WsSleepDone ==
    /\ ws.pc = "sleep"
    /\ ws' = [ws EXCEPT !.pc = "connect", !.slept = ws.reconnect_delay, !.reconnect_delay = Min2(ws.reconnect_delay * 2, MAX_RECONNECT_DELAY)]
    /\ UNCHANGED << subscribe_rx, conn, prices, price_rx, feed_log >>
    /\ UNCHANGED feed_frame

FeedNext ==
    \/ \E t \in FeedTokens : SubscribeToken(t)
    \/ \E ok \in BOOLEAN, sent_ok \in BOOLEAN : WsConnect(ok, sent_ok)
    \/ \E send_err \in BOOLEAN : WsSubscribeRecv(send_err)
    \/ ConnBreak
    \/ \E t \in FeedTokens, shape \in TradeShapes : WsReadTrade(TradeEvent(t, shape))
    \/ \E kind \in {"close", "error"} : WsReadEnd(kind)
    \/ WsSleepDone

FeedSpec == Init /\ [][FeedNext]_vars

\* the handler's steps keep to the back-off: a sleep lasts the current delay and then
\* doubles it up to the cap, leaving a connection or failing to connect goes to the
\* sleep with the delay as it is, a successful connect resets the delay and leaves a live
\* connection subscribed to every subscribed token, and no subscribed token is dropped
BackoffStep ==
    /\ (ws.pc = "sleep" /\ ws' # ws)
          => /\ ws'.pc = "connect"
             /\ ws'.slept = ws.reconnect_delay
             /\ ws'.reconnect_delay = (IF 2 * ws.reconnect_delay > 60 THEN 60 ELSE 2 * ws.reconnect_delay)
    /\ (ws.pc # "sleep" /\ ws'.pc = "sleep") => ws'.reconnect_delay = ws.reconnect_delay
    /\ (ws.pc = "loop" /\ ws'.pc # "loop") => ws'.pc = "sleep"
    /\ (ws.pc = "connect" /\ ws' # ws) => ws'.pc \in {"loop", "sleep"}
    /\ (ws.pc = "connect" /\ ws'.pc = "loop")
          => /\ ws'.reconnect_delay = 1
             /\ conn'.state = "up" => conn'.subs = Elements(ws.subscribed_tokens)
    /\ Elements(ws.subscribed_tokens) \subseteq Elements(ws'.subscribed_tokens)

\* the delay stays within 1..60 s, every token passed to subscribe_token is waiting in
\* the channel or is in the subscribed list, and a live connection in the inner loop is
\* subscribed to exactly the subscribed list
NoTokenLost ==
    /\ ws.reconnect_delay \in 1..60
    /\ feed_log.requested \subseteq (Elements(subscribe_rx) \cup Elements(ws.subscribed_tokens))
    /\ (ws.pc = "loop" /\ conn.state = "up") => conn.subs = Elements(ws.subscribed_tokens)

\* C32: after every disconnect or failed connect the price-feed handler waits the
\* current delay and then doubles it, never beyond 60 s, and resets it to 1 s on a
\* successful connect; every reconnect re-subscribes all subscribed tokens, so no token
\* passed to subscribe_token is lost across reconnects or while the connection is down.
ReconnectBackoffAndResubscribe == []NoTokenLost /\ [][BackoffStep]_vars

\* after a back-off that reached the cap, a new connection carries both tokens through
\* the re-subscribe message
ResubscribedAfterCappedBackoff ==
    /\ ws.pc = "loop"
    /\ ws.slept = 60
    /\ ws.reconnect_delay = 1
    /\ conn.state = "up"
    /\ conn.subs = FeedTokens
    /\ feed_log.drops > 0

\* the subscribed list holds each token once and at most one subscribe message per
\* token is written on a connection
SubscribedOnce ==
    /\ Len(ws.subscribed_tokens) = Cardinality(Elements(ws.subscribed_tokens))
    /\ \A t \in FeedTokens : conn.sent[t] <= 1
    /\ \A t \in FeedTokens : (ws.pc = "loop" /\ conn.state = "up" /\ t \in Elements(ws.subscribed_tokens)) => conn.sent[t] = 1

\* a request for a token that is already subscribed changes neither the list nor the
\* connection
RepeatedSubscribeStep ==
    (/\ ws.pc = "loop"
     /\ subscribe_rx # << >>
     /\ subscribe_rx' = Tail(subscribe_rx)
     /\ Head(subscribe_rx) \in Elements(ws.subscribed_tokens))
        => (ws' = ws /\ conn' = conn)

\* get_price gives the price of the most recent event of the token that had a
\* computable price, and nothing before the first such event
LatestComputedPrice ==
    \A t \in FeedTokens :
        get_price(prices, t) = IF t \in DOMAIN feed_log.last_priced
                               THEN [some |-> TRUE, price |-> feed_log.last_priced[t]]
                               ELSE [some |-> FALSE, price |-> 0]

=============================================================================
